---------------------------- MODULE Spec2Model ----------------------------
(***************************************************************************)
(* Model of the Journal Analyzer plugin (src/main.ts).                     *)
(*                                                                         *)
(* Text is modelled as a sequence of atoms.  An atom is a TLA+ string: one *)
(* character where the code looks at characters (paths, basenames, dates), *)
(* or one opaque chunk of text where it does not (template text, a word of *)
(* prose, a JSON object literal).                                          *)
(***************************************************************************)
EXTENDS Integers, Sequences, FiniteSets, TLC

VARIABLES
    settings,   \* this.settings
    folders,    \* the vault's folders (paths)
    files,      \* the vault's markdown files, in getMarkdownFiles() order
    tmp,        \* the temporary directory: file name -> content
    now,        \* Date.now()
    run,        \* one record per command run (position, locals, modal, notices)
    files0      \* history: the vault's files when the model starts

vars == <<settings, folders, files, tmp, now, run, files0>>

----------------------------------------------------------------------------
(* Bounds *)

NumProcs == 2
MaxFiles == 3
MaxClock == 1
MaxOut == 3

Procs == 1..NumProcs

----------------------------------------------------------------------------
(* Strings *)

Digits == {"0", "1", "2", "3", "4", "5", "6", "7", "8", "9"}

\* The characters of the model in UTF-16 code unit order.
CodeOrder ==
    <<"-", ".", "/", "0", "1", "2", "3", "4", "5", "6", "7", "8", "9", "N",
      "a", "b", "c", "d", "e", "f", "g", "h", "i", "j", "k", "l", "m",
      "n", "o", "p", "q", "r", "s", "t", "u", "v", "w", "x", "y", "z">>

CodeIndex ==
    [c \in {CodeOrder[i] : i \in 1..Len(CodeOrder)} |->
        CHOOSE i \in 1..Len(CodeOrder) : CodeOrder[i] = c]

CodeUnit(c) == CodeIndex[c]

\* a < b on strings: the first differing code unit decides, a proper prefix
\* is smaller.
StrLt(a, b) ==
    \E k \in 1..Len(b) :
        /\ \A j \in 1..(k - 1) : j <= Len(a) /\ a[j] = b[j]
        /\ \/ k > Len(a)
           \/ k <= Len(a) /\ CodeUnit(a[k]) < CodeUnit(b[k])

StrGeq(a, b) == ~StrLt(a, b)
StrLeq(a, b) == ~StrLt(b, a)

StartsWith(s, prefix) ==
    Len(prefix) <= Len(s) /\ SubSeq(s, 1, Len(prefix)) = prefix

LastIndexOf(s, c) ==
    IF \E i \in 1..Len(s) : s[i] = c
    THEN CHOOSE i \in 1..Len(s) :
             s[i] = c /\ \A j \in (i + 1)..Len(s) : s[j] # c
    ELSE 0

\* String.prototype.localeCompare under the default (root) collation: the
\* letters compare without case first, and only strings equal up to case are
\* ordered by case, lower case first.
Fold(c) == IF c = "N" THEN "n" ELSE c

PrimaryLt(a, b) ==
    \E k \in 1..Len(b) :
        /\ \A j \in 1..(k - 1) : j <= Len(a) /\ Fold(a[j]) = Fold(b[j])
        /\ \/ k > Len(a)
           \/ k <= Len(a) /\ CodeUnit(Fold(a[k])) < CodeUnit(Fold(b[k]))

LocaleCompare(a, b) ==
    IF PrimaryLt(a, b) THEN -1
    ELSE IF PrimaryLt(b, a) THEN 1
    ELSE IF a = b THEN 0
    ELSE LET k == CHOOSE i \in 1..Len(a) :
                      a[i] # b[i] /\ \A j \in 1..(i - 1) : a[j] = b[j]
         IN  IF a[k] = Fold(a[k]) THEN -1 ELSE 1

----------------------------------------------------------------------------
(* The vault: TFile.path, TFile.basename, getAbstractFileByPath *)

\* TFile.basename: the last path segment without its extension.
Basename(path) ==
    LET name == SubSeq(path, LastIndexOf(path, "/") + 1, Len(path))
        dot  == LastIndexOf(name, ".")
    IN  IF dot > 1 THEN SubSeq(name, 1, dot - 1) ELSE name

ParentOf(path) ==
    LET slash == LastIndexOf(path, "/")
    IN  IF slash > 1 THEN SubSeq(path, 1, slash - 1) ELSE <<>>

FilePaths(fs) == {fs[i].path : i \in 1..Len(fs)}

IsFile(fs, path) == path \in FilePaths(fs)

\* getAbstractFileByPath(path) is not null.
PathExists(fds, fs, path) == path \in fds \/ IsFile(fs, path)

FileAt(fs, path) == fs[CHOOSE i \in 1..Len(fs) : fs[i].path = path]

----------------------------------------------------------------------------
(* getJournalFilesInRange *)

\* file.basename.match(/(\d{4}-\d{2}-\d{2})/): the leftmost match, or <<>>.
DateAt(s, i) ==
    /\ i + 9 <= Len(s)
    /\ \A k \in 0..9 :
           IF k \in {4, 7} THEN s[i + k] = "-" ELSE s[i + k] \in Digits

\* Mutant of DateMatch: the last match instead of the first.
DateMatchLast(s) ==
    IF \E i \in 1..Len(s) : DateAt(s, i)
    THEN LET i == CHOOSE i \in 1..Len(s) :
                      DateAt(s, i) /\ \A j \in (i + 1)..Len(s) : ~DateAt(s, j)
         IN  SubSeq(s, i, i + 9)
    ELSE <<>>

DateMatch(s) ==
    IF \E i \in 1..Len(s) : DateAt(s, i)
    THEN LET i == CHOOSE i \in 1..Len(s) :
                      DateAt(s, i) /\ \A j \in 1..(i - 1) : ~DateAt(s, j)
         IN  SubSeq(s, i, i + 9)
    ELSE <<>>

\* Mutant of InRange: the upper bound is not checked.
InRangeNoEnd(path, journalFolder, startDate, endDate) ==
    LET fileDate == DateMatch(Basename(path))
    IN  /\ StartsWith(path, journalFolder)
        /\ fileDate # <<>>
        /\ StrGeq(fileDate, startDate)

\* The filter callback of getJournalFilesInRange.
InRange(path, journalFolder, startDate, endDate) ==
    LET fileDate == DateMatch(Basename(path))
    IN  /\ StartsWith(path, journalFolder)
        /\ fileDate # <<>>
        /\ StrGeq(fileDate, startDate)
        /\ StrLeq(fileDate, endDate)

RECURSIVE Filter(_, _, _, _)
Filter(paths, journalFolder, startDate, endDate) ==
    IF paths = <<>> THEN <<>>
    ELSE LET rest == Filter(Tail(paths), journalFolder, startDate, endDate)
         IN  IF InRange(Head(paths), journalFolder, startDate, endDate)
             THEN <<Head(paths)>> \o rest
             ELSE rest

\* Mutant of SortByBasename: the files stay in the order of the listing.
ListingOrder(paths) == paths

\* Array.prototype.sort with (a, b) => a.basename.localeCompare(b.basename):
\* a stable sort.
InsertByBasename(sorted, path) ==
    LET after == {i \in 1..Len(sorted) :
                      LocaleCompare(Basename(sorted[i]), Basename(path)) > 0}
        at    == IF after = {} THEN Len(sorted) + 1
                 ELSE CHOOSE i \in after : \A j \in after : i <= j
    IN  SubSeq(sorted, 1, at - 1) \o <<path>> \o SubSeq(sorted, at, Len(sorted))

RECURSIVE SortByBasename(_)
SortByBasename(paths) ==
    IF paths = <<>> THEN <<>>
    ELSE InsertByBasename(SortByBasename(SubSeq(paths, 1, Len(paths) - 1)),
                          paths[Len(paths)])

PathsOf(fs) == [i \in 1..Len(fs) |-> fs[i].path]

\* The value getJournalFilesInRange returns when it does not throw.
GetJournalFilesInRange(fs, journalFolder, startDate, endDate) ==
    SortByBasename(Filter(PathsOf(fs), journalFolder, startDate, endDate))

\* Mutant of JournalFolderMissing: the folder is never looked up.
FolderNeverMissing(fds, fs, journalFolder) == FALSE

\* getJournalFilesInRange throws "Journal folder not found".
JournalFolderMissing(fds, fs, journalFolder) ==
    ~PathExists(fds, fs, journalFolder)

----------------------------------------------------------------------------
(* Text helpers of the pipeline *)

Whitespace == {" ", "\n"}

RECURSIVE TrimStart(_)
TrimStart(s) ==
    IF s # <<>> /\ Head(s) \in Whitespace THEN TrimStart(Tail(s)) ELSE s

RECURSIVE TrimEnd(_)
TrimEnd(s) ==
    IF s # <<>> /\ s[Len(s)] \in Whitespace
    THEN TrimEnd(SubSeq(s, 1, Len(s) - 1))
    ELSE s

\* String.prototype.trim
Trim(s) == TrimEnd(TrimStart(s))

\* s.split(atom).length - 1
CountAtom(s, atom) == Cardinality({i \in 1..Len(s) : s[i] = atom})

\* formatDate(new Date()): the day the model runs on.
Today == <<"2", "0", "2", "5", "-", "1", "0", "-", "0", "3">>

----------------------------------------------------------------------------
(* readJournalFiles, analyzeWithClaudeCode, createMetaNote: the texts *)

\* Mutant of EntrySection: the body is left out.
EntrySectionHeaderOnly(path, fileContent) ==
    <<"\n\n", "## Entry:", " ">> \o Basename(path) \o <<"\n\n", "\n">>

\* One iteration of readJournalFiles: content += ...
EntrySection(path, fileContent) ==
    <<"\n\n", "## Entry:", " ">> \o Basename(path) \o <<"\n\n">>
        \o fileContent \o <<"\n">>

ThemePrompt(content, startDate, endDate) ==
    <<"Analyze the following journal entries from ">> \o startDate
        \o <<" to ">> \o endDate
        \o <<".\n\nPlease provide: (five sections)\n\nJournal Entries:\n">>
        \o content
        \o <<"\n\nPlease format your response in markdown with clear sections.">>

\* Mutant of EmptyResponse: the output is not trimmed before the test.
EmptyUntrimmed(stdout) == Len(stdout) = 0

\* !stdout || stdout.trim().length === 0
EmptyResponse(stdout) == Len(Trim(stdout)) = 0

\* The metadata footer analyzeWithClaudeCode appends.
Footer(content, time) ==
    <<"\n\n---\n*Generated by Journal Analyzer Plugin*\n*Entries analyzed: ",
      ToString(CountAtom(content, "## Entry:")),
      "*\n*Generated: ", ToString(time), "*">>

Analysis(stdout, content, time) == Trim(stdout) \o Footer(content, time)

Frontmatter(startDate, endDate) ==
    <<"---\ndate: ">> \o Today
        \o <<"\ntype: journal-analysis\ntags: [meta, analysis, journal]\nstart_date: ">>
        \o startDate \o <<"\nend_date: ">> \o endDate \o <<"\n---\n\n">>

\* Mutant of FullContent: the note is written without the analysis.
FrontmatterOnly(analysis, startDate, endDate) ==
    Frontmatter(startDate, endDate)

FullContent(analysis, startDate, endDate) ==
    Frontmatter(startDate, endDate) \o analysis

\* `${metaFolder}/analysis-${startDate}-to-${endDate}.md`
MetaNotePath(metaFolder, startDate, endDate) ==
    metaFolder \o <<"/", "a", "n", "a", "l", "y", "s", "i", "s", "-">>
        \o startDate \o <<"-", "t", "o", "-">> \o endDate
        \o <<".", "m", "d">>

----------------------------------------------------------------------------
(* The host's stores *)

\* vault.create(path, content)
VaultCreate(fs, path, content, time) ==
    Append(fs, [path |-> path, content |-> content, mtime |-> time])

\* vault.modify(file, content)
VaultModify(fs, path, content, time) ==
    [i \in 1..Len(fs) |->
        IF fs[i].path = path
        THEN [path |-> path, content |-> content, mtime |-> time]
        ELSE fs[i]]

\* fs.promises.writeFile(tempFile, prompt)
TmpWrite(t, name, content) ==
    [n \in DOMAIN t \cup {name} |-> IF n = name THEN content ELSE t[n]]

\* fs.promises.unlink(tempFile)
TmpUnlink(t, name) == [n \in DOMAIN t \ {name} |-> t[n]]

NoTemp == [prefix |-> "", stamp |-> 0]

----------------------------------------------------------------------------
(* A command run *)

\* A run that has not been started.  pc is "off" for a run the specification
\* never starts and "idle" for one it may start.
NoRun ==
    [pc |-> "off", kind |-> "none",
     startDate |-> <<>>, endDate |-> <<>>,
     journalFiles |-> <<>>, idx |-> 0, content |-> <<>>,
     tempFile |-> NoTemp,
     promise |-> "none",     \* execAsync's promise: none, pending, resolved, rejected
     stdout |-> <<>>, analysis |-> <<>>,
     writeOp |-> "none",
     currentFile |-> <<>>, recentFiles |-> <<>>,
     connections |-> <<>>, suggestionsOpen |-> FALSE,
     modalOpen |-> FALSE, notices |-> <<>>,
     cancelledAt |-> "none", \* history: where the run was when Cancel was clicked
     execs |-> 0,            \* history: execAsync calls made
     noteWrites |-> 0,       \* history: vault.create/modify calls that took effect
     added |-> 0, failed |-> 0,   \* the counters of 'Add All Links'
     updatedContent |-> <<>>,     \* insertWikiLink's local
     entry |-> <<>>,              \* saveJournalEntry's argument
     existingContent |-> <<>>, newContent |-> <<>>,   \* and its locals
     attempts |-> <<>>]      \* history: the connections insertWikiLink was called for

Notify(r, text) == [r EXCEPT !.notices = Append(@, text)]

\* Mutant of Finish: the progress modal is left as it is.
FinishWithoutClose(r, text) == [Notify(r, text) EXCEPT !.pc = "done"]

\* progressModal.close(); new Notice(text); return
Finish(r, text) ==
    [Notify(r, text) EXCEPT !.pc = "done", !.modalOpen = FALSE]

----------------------------------------------------------------------------
(* analyzeJournalRange *)

NothingFound == <<"No journal entries found in the specified range">>
AnalysisComplete == <<"Journal analysis complete!">>

\* The catch block of analyzeJournalRange.
ThemeCatch(r, message) ==
    Finish(r, <<"Error analyzing journal: ">> \o message)

\* The catch block of analyzeWithClaudeCode, caught again by the caller.
ClaudeCatch(r, message) ==
    ThemeCatch(r, <<"Failed to analyze with Claude Code: ">> \o message)

\* The command's callback up to its first suspension: the modal opens,
\* getJournalFilesInRange runs, and either the run ends (folder missing,
\* nothing found) or it pauses on setTimeout(1000).
AnalyzeJournalRange(p, startDate, endDate) ==
    /\ run[p].pc = "idle"
    /\ LET r0 == [run[p] EXCEPT !.kind = "theme", !.modalOpen = TRUE,
                                 !.startDate = startDate, !.endDate = endDate]
           journalFiles == GetJournalFilesInRange(
                               files, settings.journalFolder, startDate, endDate)
       IN  run' = [run EXCEPT ![p] =
              IF JournalFolderMissing(folders, files, settings.journalFolder)
              THEN ThemeCatch(r0, <<"Journal folder not found: ">>
                                      \o settings.journalFolder)
              ELSE IF Len(journalFiles) = 0
              THEN Finish(r0, NothingFound)
              ELSE [r0 EXCEPT !.pc = "pause", !.journalFiles = journalFiles]]
    /\ UNCHANGED <<settings, folders, files, tmp, now, files0>>

\* The pause ends; readJournalFiles issues its first vault.read.
PauseDone(p) ==
    /\ run[p].pc = "pause"
    /\ run' = [run EXCEPT ![p].pc = "read", ![p].idx = 1, ![p].content = <<>>]
    /\ UNCHANGED <<settings, folders, files, tmp, now, files0>>

\* analyzeWithClaudeCode up to `await fs.promises.writeFile(tempFile, prompt)`.
BeginAnalyze(r, content) ==
    [r EXCEPT !.pc = "writeTemp", !.content = content,
              !.tempFile = [prefix |-> "journal-analysis-prompt-", stamp |-> now]]

\* vault.read(files[idx]) completes: the section is appended, and the next
\* read, or the analysis, starts.
ReadDone(p) ==
    /\ run[p].pc = "read"
    /\ \E ok \in BOOLEAN :
         LET r    == run[p]
             path == r.journalFiles[r.idx]
         IN  run' = [run EXCEPT ![p] =
                IF ~ok \/ ~IsFile(files, path)
                THEN ThemeCatch(r, <<"read failed">>)
                ELSE LET content ==
                             r.content \o EntrySection(path, FileAt(files, path).content)
                     IN  IF r.idx < Len(r.journalFiles)
                         THEN [r EXCEPT !.idx = r.idx + 1, !.content = content]
                         ELSE BeginAnalyze(r, content)]
    /\ UNCHANGED <<settings, folders, files, tmp, now, files0>>

\* writeFile completes; on success execAsync is called.
WriteTempDone(p) ==
    /\ run[p].pc = "writeTemp"
    /\ \E ok \in BOOLEAN :
         LET r == run[p]
         IN  IF ok
             THEN /\ tmp' = TmpWrite(tmp, r.tempFile,
                                     ThemePrompt(r.content, r.startDate, r.endDate))
                  /\ run' = [run EXCEPT ![p].pc = "exec", ![p].execs = @ + 1,
                                        ![p].promise = "pending"]
             ELSE /\ tmp' = tmp
                  /\ run' = [run EXCEPT ![p] = ClaudeCatch(r, <<"write failed">>)]
    /\ UNCHANGED <<settings, folders, files, now, files0>>

\* What `await execAsync(...)` can end with: the shell cannot be started, the
\* pipeline exits with a non-zero status (both reject), or it exits with
\* status 0 and some text on stdout.
ExecFailures == {<<"spawn failed">>, <<"Command failed">>}

ExecResults(outputs) ==
    [ok : {FALSE}, message : ExecFailures, stdout : {<<>>}]
        \cup [ok : {TRUE}, message : {<<>>}, stdout : outputs]

ThemeOutputs == {<<>>, <<" ", "\n">>, <<"themes">>, <<"\n", "themes", " ">>}

\* execAsync completes; on success unlink is called.
ExecDone(p) ==
    /\ run[p].pc = "exec"
    /\ \E res \in ExecResults(ThemeOutputs) :
         run' = [run EXCEPT ![p] =
                    IF res.ok
                    THEN [run[p] EXCEPT !.pc = "unlink", !.promise = "resolved",
                                        !.stdout = res.stdout]
                    ELSE ClaudeCatch([run[p] EXCEPT !.promise = "rejected"],
                                     res.message)]
    /\ UNCHANGED <<settings, folders, files, tmp, now, files0>>

\* Mutant of BeginWriteNote: the note is always created.
BeginWriteNoteCreate(r, fs) ==
    [r EXCEPT !.pc = "writeNote", !.writeOp = "create"]

\* createMetaNote from the computation of the file name to the call of
\* vault.modify or vault.create.
BeginWriteNote(r, fs) ==
    [r EXCEPT !.pc = "writeNote",
              !.writeOp =
                  IF IsFile(fs, MetaNotePath(settings.metaFolder,
                                             r.startDate, r.endDate))
                  THEN "modify" ELSE "create"]

\* createMetaNote up to its first suspension.
CreateMetaNote(r, fds, fs) ==
    IF ~PathExists(fds, fs, settings.metaFolder)
    THEN [r EXCEPT !.pc = "createFolder"]
    ELSE BeginWriteNote(r, fs)

\* analyzeWithClaudeCode after the unlink, and the caller's next call.
AfterUnlink(r) ==
    IF EmptyResponse(r.stdout)
    THEN ClaudeCatch(r, <<"Claude Code returned empty response">>)
    ELSE CreateMetaNote([r EXCEPT !.analysis = Analysis(r.stdout, r.content, now)],
                        folders, files)

\* unlink completes.
UnlinkDone(p) ==
    /\ run[p].pc = "unlink"
    /\ \E ok \in BOOLEAN :
         LET r == run[p]
         IN  IF ok /\ r.tempFile \in DOMAIN tmp
             THEN /\ tmp' = TmpUnlink(tmp, r.tempFile)
                  /\ run' = [run EXCEPT ![p] = AfterUnlink(r)]
             ELSE /\ tmp' = tmp
                  /\ run' = [run EXCEPT ![p] = ClaudeCatch(r, <<"unlink failed">>)]
    /\ UNCHANGED <<settings, folders, files, now, files0>>

\* vault.createFolder(metaFolder) completes: it throws when the folder
\* exists by now.
CreateFolderDone(p) ==
    /\ run[p].pc = "createFolder"
    /\ \E ok \in BOOLEAN :
         LET r == run[p]
         IN  IF ok /\ ~PathExists(folders, files, settings.metaFolder)
             THEN /\ folders' = folders \cup {settings.metaFolder}
                  /\ run' = [run EXCEPT ![p] = BeginWriteNote(r, files)]
             ELSE /\ folders' = folders
                  /\ run' = [run EXCEPT ![p] =
                         ThemeCatch(r, IF ok THEN <<"Folder already exists.">>
                                       ELSE <<"createFolder failed">>)]
    /\ UNCHANGED <<settings, files, tmp, now, files0>>

\* vault.modify or vault.create completes; on success the note is opened.
\* vault.create throws when something exists at the path by now.
WriteNoteDone(p) ==
    /\ run[p].pc = "writeNote"
    /\ \E ok \in BOOLEAN :
         LET r        == run[p]
             filename == MetaNotePath(settings.metaFolder, r.startDate, r.endDate)
             content  == FullContent(r.analysis, r.startDate, r.endDate)
             can      == IF r.writeOp = "modify"
                         THEN IsFile(files, filename)
                         ELSE /\ ~PathExists(folders, files, filename)
                              /\ ParentOf(filename) \in folders
         IN  IF ok /\ can
             THEN /\ files' = IF r.writeOp = "modify"
                               THEN VaultModify(files, filename, content, now)
                               ELSE VaultCreate(files, filename, content, now)
                  /\ run' = [run EXCEPT ![p].pc = "openFile",
                                        ![p].noteWrites = @ + 1]
             ELSE /\ files' = files
                  /\ run' = [run EXCEPT ![p] =
                         ThemeCatch(r, IF ok /\ r.writeOp = "create"
                                       THEN <<"File already exists.">>
                                       ELSE <<"write failed">>)]
    /\ UNCHANGED <<settings, folders, tmp, now, files0>>

\* openFile completes; the run ends.
OpenFileDone(p) ==
    /\ run[p].pc = "openFile"
    /\ \E ok \in BOOLEAN :
         run' = [run EXCEPT ![p] =
                    IF ok THEN Finish(run[p], AnalysisComplete)
                    ELSE ThemeCatch(run[p], <<"open failed">>)]
    /\ UNCHANGED <<settings, folders, files, tmp, now, files0>>

----------------------------------------------------------------------------
(* The external tool's output as JSON *)

\* The JSON object literals the external tool writes, each one atom, and the
\* value JSON.parse gives for it.
JsonObjects == {"{confidence:69}", "{confidence:70}", "{confidence:95}"}

\* Object literals that are not Connection-shaped: a confidence above 100, a
\* confidence that is a string (of digits, of letters), no confidence.
MalformedObjects ==
    {"{confidence:150}", "{confidence:'95'}", "{confidence:'high'}", "{}"}

\* Number(c.confidence), with 0 where it is NaN.
ConfidenceOf(atom) ==
    CASE atom = "{confidence:69}" -> 69
      [] atom = "{confidence:70}" -> 70
      [] atom = "{confidence:95}" -> 95
      [] atom = "{confidence:150}" -> 150
      [] atom = "{confidence:'95'}" -> 95
      [] OTHER -> 0

\* typeof c.confidence, with "NaN" for a string that is no number.
RawOf(atom) ==
    CASE atom \in JsonObjects \cup {"{confidence:150}"} -> "number"
      [] atom = "{confidence:'95'}" -> "string"
      [] atom = "{confidence:'high'}" -> "NaN"
      [] OTHER -> "undefined"

\* Mutant of JsonMatch: without a match the whole output is decoded.
JsonMatchOrAll(stdout) ==
    IF \E i, j \in 1..Len(stdout) : i < j /\ stdout[i] = "[" /\ stdout[j] = "]"
    THEN SubSeq(stdout,
                CHOOSE i \in 1..Len(stdout) :
                    stdout[i] = "[" /\ \A k \in 1..(i - 1) : stdout[k] # "[",
                CHOOSE j \in 1..Len(stdout) :
                    stdout[j] = "]" /\ \A k \in (j + 1)..Len(stdout) : stdout[k] # "]")
    ELSE stdout

\* stdout.match(/\[[\s\S]*\]/): from the first "[" to the last "]" after it,
\* or <<>> for no match.
JsonMatch(stdout) ==
    LET opens == {i \in 1..Len(stdout) : stdout[i] = "["}
    IN  IF opens = {} THEN <<>>
        ELSE LET first  == CHOOSE i \in opens : \A j \in opens : i <= j
                 closes == {i \in (first + 1)..Len(stdout) : stdout[i] = "]"}
             IN  IF closes = {} THEN <<>>
                 ELSE SubSeq(stdout, first,
                             CHOOSE i \in closes : \A j \in closes : j <= i)

RECURSIVE SkipWs(_, _)
SkipWs(t, i) ==
    IF i <= Len(t) /\ t[i] \in Whitespace THEN SkipWs(t, i + 1) ELSE i

ParseFailure == [ok |-> FALSE, next |-> 0, items |-> <<>>]

\* JSON.parse on atoms: a value is an object literal, null, or an array of
\* values separated by commas; white space separates, anything else is a
\* syntax error.  ParseValue(t, i) parses the value that starts at t[i];
\* ParseItems(t, i, items) parses the rest of an array whose items so far
\* are `items`, t[i] being the start of its next value.
RECURSIVE ParseValue(_, _)
RECURSIVE ParseItems(_, _, _)
ParseValue(t, i0) ==
    LET i == SkipWs(t, i0)
    IN  IF i > Len(t) THEN ParseFailure
        ELSE IF t[i] \in JsonObjects \cup MalformedObjects
        THEN [ok |-> TRUE, next |-> i + 1,
              items |-> <<[type |-> "object", confidence |-> ConfidenceOf(t[i]),
                           raw |-> RawOf(t[i])]>>]
        ELSE IF t[i] = "null"
        THEN [ok |-> TRUE, next |-> i + 1,
              items |-> <<[type |-> "null", confidence |-> 0, raw |-> "undefined"]>>]
        ELSE IF t[i] = "["
        THEN LET j == SkipWs(t, i + 1)
             IN  IF j <= Len(t) /\ t[j] = "]"
                 THEN [ok |-> TRUE, next |-> j + 1, items |-> <<>>]
                 ELSE ParseItems(t, j, <<>>)
        ELSE ParseFailure

ParseItems(t, i, items) ==
    LET v == ParseValue(t, i)
        k == SkipWs(t, v.next)
        \* an item that is itself an array is kept as one array value
        item == IF t[SkipWs(t, i)] = "["
                THEN <<[type |-> "array", confidence |-> 0, raw |-> "undefined"]>>
                ELSE v.items
    IN  IF ~v.ok \/ k > Len(t) THEN ParseFailure
        ELSE IF t[k] = "," THEN ParseItems(t, k + 1, items \o item)
        ELSE IF t[k] = "]"
        THEN [ok |-> TRUE, next |-> k + 1, items |-> items \o item]
        ELSE ParseFailure

\* JSON.parse(text) of a text that starts with "[": the array's items, or a
\* SyntaxError (ok = FALSE).
JsonParse(text) ==
    LET v == ParseValue(text, 1)
    IN  IF v.ok /\ SkipWs(text, v.next) = Len(text) + 1 THEN v ELSE ParseFailure

\* Mutant of Retained: the threshold itself is not retained.
RetainedAbove(c, minConfidence) ==
    c.raw \in {"number", "string"} /\ c.confidence > minConfidence

\* c => c.confidence >= minConfidence, for a c that is not null: the
\* comparison converts a string to a number and is false for undefined and
\* for NaN.
Retained(c, minConfidence) ==
    c.raw \in {"number", "string"} /\ c.confidence >= minConfidence

RECURSIVE FilterConfidence(_, _)
FilterConfidence(items, minConfidence) ==
    IF items = <<>> THEN <<>>
    ELSE (IF Retained(Head(items), minConfidence) THEN <<Head(items)>> ELSE <<>>)
             \o FilterConfidence(Tail(items), minConfidence)

\* Mutant of ParseConnections: a syntax error is swallowed.
ParseConnectionsLenient(stdout, minConfidence) ==
    LET match  == JsonMatch(stdout)
        parsed == JsonParse(match)
    IN  IF match = <<>> \/ ~parsed.ok
        THEN [ok |-> TRUE, message |-> <<>>, connections |-> <<>>]
        ELSE IF \E i \in 1..Len(parsed.items) : parsed.items[i].type = "null"
        THEN [ok |-> FALSE,
              message |-> <<"Cannot read properties of null (reading 'confidence')">>,
              connections |-> <<>>]
        ELSE [ok |-> TRUE, message |-> <<>>,
              connections |-> FilterConfidence(parsed.items, minConfidence)]

\* What analyzeConnections does with a non-empty stdout: it returns the
\* retained connections, or throws (JSON.parse on a syntax error, the filter
\* callback reading .confidence of null).
ParseConnections(stdout, minConfidence) ==
    LET match  == JsonMatch(stdout)
        parsed == JsonParse(match)
    IN  IF match = <<>> THEN [ok |-> TRUE, message |-> <<>>, connections |-> <<>>]
        ELSE IF ~parsed.ok
        THEN [ok |-> FALSE, message |-> <<"Unexpected token in JSON">>,
              connections |-> <<>>]
        ELSE IF \E i \in 1..Len(parsed.items) : parsed.items[i].type = "null"
        THEN [ok |-> FALSE,
              message |-> <<"Cannot read properties of null (reading 'confidence')">>,
              connections |-> <<>>]
        ELSE [ok |-> TRUE, message |-> <<>>,
              connections |-> FilterConfidence(parsed.items, minConfidence)]

----------------------------------------------------------------------------
(* findMissingConnections, analyzeConnections *)

NoActiveFile == <<"No active file. Please open a note to analyze.">>
NoSuggestions == <<"No connection suggestions found">>

MaxCandidates == 50
PreviewLength == 500

\* The catch block of quickJournalWithAnalysis.
QuickCatch(r, message) == Finish(r, <<"Error: ">> \o message)

\* The catch block of the caller of analyzeConnections:
\* findMissingConnections or quickJournalWithAnalysis.
ConnectionsCatch(r, message) ==
    IF r.kind = "quick" THEN QuickCatch(r, message)
    ELSE Finish(r, <<"Error finding connections: ">> \o message)

\* The catch block of analyzeConnections, caught again by the caller.
AnalyzeCatch(r, message) ==
    ConnectionsCatch(r, <<"Failed to analyze connections: ">> \o message)

MtimeOf(fs, path) == IF IsFile(fs, path) THEN FileAt(fs, path).mtime ELSE 0

\* otherFiles.sort((a, b) => b.stat.mtime - a.stat.mtime): a stable sort,
\* so that a file comes after those modified later than it and after those
\* modified at the same time that were listed before it.
SortByMtime(fs, paths) ==
    LET before(i) == {j \in 1..Len(paths) :
                         \/ MtimeOf(fs, paths[j]) > MtimeOf(fs, paths[i])
                         \/ /\ MtimeOf(fs, paths[j]) = MtimeOf(fs, paths[i])
                            /\ j < i}
    IN  [k \in 1..Len(paths) |->
            paths[CHOOSE i \in 1..Len(paths) : Cardinality(before(i)) = k - 1]]

\* allFiles.filter(f => f.path !== currentFile.path), sorted, .slice(0, 50)
RecentFiles(fs, allFiles, currentFile) ==
    LET otherFiles == SelectSeq(allFiles, LAMBDA path : path # currentFile)
        sorted     == SortByMtime(fs, otherFiles)
    IN  SubSeq(sorted, 1, IF Len(sorted) < MaxCandidates THEN Len(sorted)
                          ELSE MaxCandidates)

\* Mutant of Preview: the length that is kept whole is one short.
PreviewUnder(content) ==
    IF Len(content) >= PreviewLength
    THEN SubSeq(content, 1, PreviewLength) \o <<"...">>
    ELSE content

\* The first 500 characters of a longer content and '...', or the content.
Preview(content) ==
    IF Len(content) > PreviewLength
    THEN SubSeq(content, 1, PreviewLength) \o <<"...">>
    ELSE content

ContextHeader(currentFile, currentContent) ==
    <<"# Current Note: ">> \o Basename(currentFile) \o <<"\n\n">>
        \o currentContent \o <<"\n\n---\n\n# Other Notes:\n\n">>

ContextSection(path, content) ==
    <<"## ">> \o path \o <<"\n">> \o Preview(content) \o <<"\n\n">>

ConnectionPrompt(currentFile, context, minConfidence) ==
    <<"Analyze the current note and suggest wiki-link connections. Current Note: ">>
        \o Basename(currentFile)
        \o <<" minimum confidence threshold: ", ToString(minConfidence),
              "% (instructions, example) Context:\n">>
        \o context \o <<"\n\nReturn JSON array only:">>

\* The command's callback up to its first suspension: without an active file
\* the run ends, otherwise analyzeConnections reads the current file.
FindMissingConnections(p, activeFile) ==
    /\ run[p].pc = "idle"
    /\ LET r0 == [run[p] EXCEPT !.kind = "connections", !.modalOpen = TRUE]
       IN  run' = [run EXCEPT ![p] =
              IF activeFile = <<>>
              THEN Finish(r0, NoActiveFile)
              ELSE [r0 EXCEPT !.pc = "readCurrent", !.currentFile = activeFile,
                              !.recentFiles = PathsOf(files)]]
    /\ UNCHANGED <<settings, folders, files, tmp, now, files0>>

\* analyzeConnections from the end of its reads to
\* `await fs.promises.writeFile(tempFile, prompt)`.
BeginConnections(r, context) ==
    [r EXCEPT !.pc = "connWriteTemp", !.content = context,
              !.tempFile = [prefix |-> "connection-analysis-", stamp |-> now]]

\* vault.read(currentFile) completes: the candidates are chosen and the
\* first of them is read.
ReadCurrentDone(p) ==
    /\ run[p].pc = "readCurrent"
    /\ \E ok \in BOOLEAN :
         LET r == run[p]
         IN  run' = [run EXCEPT ![p] =
                IF ~ok \/ ~IsFile(files, r.currentFile)
                THEN ConnectionsCatch(r, <<"read failed">>)
                ELSE LET recentFiles ==
                             RecentFiles(files, r.recentFiles, r.currentFile)
                         context ==
                             ContextHeader(r.currentFile,
                                           FileAt(files, r.currentFile).content)
                     IN  IF recentFiles = <<>>
                         THEN BeginConnections(
                                  [r EXCEPT !.recentFiles = recentFiles], context)
                         ELSE [r EXCEPT !.pc = "readOther", !.idx = 1,
                                        !.recentFiles = recentFiles,
                                        !.content = context]]
    /\ UNCHANGED <<settings, folders, files, tmp, now, files0>>

\* vault.read(recentFiles[idx]) completes.
ReadOtherDone(p) ==
    /\ run[p].pc = "readOther"
    /\ \E ok \in BOOLEAN :
         LET r    == run[p]
             path == r.recentFiles[r.idx]
         IN  run' = [run EXCEPT ![p] =
                IF ~ok \/ ~IsFile(files, path)
                THEN ConnectionsCatch(r, <<"read failed">>)
                ELSE LET context ==
                             r.content
                                 \o ContextSection(path, FileAt(files, path).content)
                     IN  IF r.idx < Len(r.recentFiles)
                         THEN [r EXCEPT !.idx = r.idx + 1, !.content = context]
                         ELSE BeginConnections(r, context)]
    /\ UNCHANGED <<settings, folders, files, tmp, now, files0>>

\* writeFile completes; on success execAsync is called.
ConnWriteTempDone(p) ==
    /\ run[p].pc = "connWriteTemp"
    /\ \E ok \in BOOLEAN :
         LET r == run[p]
         IN  IF ok
             THEN /\ tmp' = TmpWrite(tmp, r.tempFile,
                                     ConnectionPrompt(r.currentFile, r.content,
                                         settings.connectionMinConfidence))
                  /\ run' = [run EXCEPT ![p].pc = "connExec", ![p].execs = @ + 1,
                                        ![p].promise = "pending"]
             ELSE /\ tmp' = tmp
                  /\ run' = [run EXCEPT ![p] = AnalyzeCatch(r, <<"write failed">>)]
    /\ UNCHANGED <<settings, folders, files, now, files0>>

\* The atoms of the external tool's answer to a connection prompt.
ConnAtoms ==
    {"prose", " ", "[", "]", ","} \cup JsonObjects

Texts(atoms, n) == UNION {[1..k -> atoms] : k \in 0..n}

\* Arrays of up to two object literals, alone or between prose which may
\* itself hold brackets.
JsonArrays ==
    {<<"[", "]">>}
        \cup {<<"[", a, "]">> : a \in JsonObjects}
        \cup {<<"[", a, ",", " ", b, "]">> : a \in JsonObjects, b \in JsonObjects}

ProseBefore == {<<>>, <<"prose", " ">>, <<"prose", "[", "prose", "]", " ">>}
ProseAfter == {<<>>, <<" ", "prose">>, <<" ", "[", "prose", "]">>}

ConnOutputs ==
    Texts(ConnAtoms, MaxOut)
        \cup {before \o array \o after :
                 before \in ProseBefore, array \in JsonArrays, after \in ProseAfter}

\* execAsync completes; on success unlink is called.
ConnExecSettles(p, outputs) ==
    /\ run[p].pc = "connExec"
    /\ \E res \in ExecResults(outputs) :
         run' = [run EXCEPT ![p] =
                    IF res.ok
                    THEN [run[p] EXCEPT !.pc = "connUnlink", !.promise = "resolved",
                                        !.stdout = res.stdout]
                    ELSE AnalyzeCatch([run[p] EXCEPT !.promise = "rejected"],
                                      res.message)]
    /\ UNCHANGED <<settings, folders, files, tmp, now, files0>>

ConnExecDone(p) == ConnExecSettles(p, ConnOutputs)

\* quickJournalWithAnalysis after analyzeConnections has returned: the
\* progress modal closes, the notice is shown, and the suggestions or the
\* journal file are opened.
AfterQuickAnalysis(r, connections) ==
    LET shown == [Notify(r, <<"Journal entry saved!">>) EXCEPT
                      !.modalOpen = FALSE, !.connections = connections]
    IN  IF Len(connections) > 0
        THEN [shown EXCEPT !.pc = "done", !.suggestionsOpen = TRUE]
        ELSE [shown EXCEPT !.pc = "quickOpen"]

\* analyzeConnections after the unlink, and its caller after
\* analyzeConnections.
AfterConnUnlink(r) ==
    LET parsed == ParseConnections(r.stdout, settings.connectionMinConfidence)
    IN  IF EmptyResponse(r.stdout)
        THEN AnalyzeCatch(r, <<"Claude Code returned empty response">>)
        ELSE IF ~parsed.ok
        THEN AnalyzeCatch(r, parsed.message)
        ELSE IF r.kind = "quick"
        THEN AfterQuickAnalysis(r, parsed.connections)
        ELSE IF Len(parsed.connections) = 0
        THEN Finish(r, NoSuggestions)
        ELSE [r EXCEPT !.pc = "done", !.modalOpen = FALSE,
                       !.connections = parsed.connections,
                       !.suggestionsOpen = TRUE]

\* unlink completes.
ConnUnlinkDone(p) ==
    /\ run[p].pc = "connUnlink"
    /\ \E ok \in BOOLEAN :
         LET r == run[p]
         IN  IF ok /\ r.tempFile \in DOMAIN tmp
             THEN /\ tmp' = TmpUnlink(tmp, r.tempFile)
                  /\ run' = [run EXCEPT ![p] = AfterConnUnlink(r)]
             ELSE /\ tmp' = tmp
                  /\ run' = [run EXCEPT ![p] = AnalyzeCatch(r, <<"unlink failed">>)]
    /\ UNCHANGED <<settings, folders, files, now, files0>>

----------------------------------------------------------------------------
(* ProgressModal *)

\* The click listener of the Cancel button: no cancel callback is ever set,
\* so the click only closes the modal.
Cancel(p) ==
    /\ run[p].modalOpen
    /\ run' = [run EXCEPT ![p].modalOpen = FALSE, ![p].cancelledAt = run[p].pc]
    /\ UNCHANGED <<settings, folders, files, tmp, now, files0>>

\* Time passes.
Tick ==
    /\ now < MaxClock
    /\ now' = now + 1
    /\ UNCHANGED <<settings, folders, files, tmp, run, files0>>

----------------------------------------------------------------------------
(* insertWikiLink, ConnectionSuggestionModal *)

\* targetPath.replace(/\.md$/, '')
TargetBasename(targetPath) ==
    LET n == Len(targetPath)
    IN  IF n >= 3 /\ SubSeq(targetPath, n - 2, n) = <<".", "m", "d">>
        THEN SubSeq(targetPath, 1, n - 3)
        ELSE targetPath

WikiLink(targetPath) == <<"[", "[">> \o TargetBasename(targetPath) \o <<"]", "]">>

\* content.indexOf(pattern) + 1: where pattern first occurs, or 0.
IndexOf(content, pattern) ==
    LET at == {i \in 1..(Len(content) - Len(pattern) + 1) :
                  SubSeq(content, i, i + Len(pattern) - 1) = pattern}
    IN  IF at = {} THEN 0 ELSE CHOOSE i \in at : \A j \in at : i <= j

\* Mutant of GetSubstitution: the replacement is taken as it is.
Literally(replacement, matched, before, after) == replacement

\* What String.prototype.replace makes of a replacement string when the
\* pattern is a string: "$$" stands for "$", "$&" for the matched text,
\* "$`" and "$'" for the text before and after the match; any other "$" is
\* kept.
RECURSIVE GetSubstitution(_, _, _, _)
GetSubstitution(replacement, matched, before, after) ==
    IF replacement = <<>> THEN <<>>
    ELSE IF replacement[1] = "$" /\ Len(replacement) >= 2
                                /\ replacement[2] \in {"$", "&", "`", "'"}
    THEN (CASE replacement[2] = "$" -> <<"$">>
            [] replacement[2] = "&" -> matched
            [] replacement[2] = "`" -> before
            [] replacement[2] = "'" -> after)
            \o GetSubstitution(SubSeq(replacement, 3, Len(replacement)),
                               matched, before, after)
    ELSE <<replacement[1]>>
            \o GetSubstitution(Tail(replacement), matched, before, after)

\* content.replace(pattern, replacement), pattern being a string.
Replace(content, pattern, replacement) ==
    LET i      == IndexOf(content, pattern)
        before == SubSeq(content, 1, i - 1)
        after  == SubSeq(content, i + Len(pattern), Len(content))
    IN  IF i = 0 THEN content
        ELSE before \o GetSubstitution(replacement, pattern, before, after) \o after

AddedLinkTo(targetFile) == <<"Added link to ">> \o targetFile
TextNotFound == <<"Could not find exact text to link. Text may have changed.">>

\* new Notice(`Added ${added} links. ${failed > 0 ? `${failed} failed.` : ''}`)
AddedLinks(added, failed) ==
    <<"Added ", ToString(added), " links. ">>
        \o (IF failed > 0 THEN <<ToString(failed), " failed.">> ELSE <<>>)

\* Mutant of AddAllCatch: the loop is left at the first exception.
AddAllCatchAndStop(r) ==
    [r EXCEPT !.failed = @ + 1, !.idx = Len(r.connections)]

\* The catch block in the loop of 'Add All Links'.
AddAllCatch(r) == [r EXCEPT !.failed = @ + 1]

\* The call of insertWikiLink for connection r.idx, up to vault.read.
InsertWikiLink(r) ==
    [r EXCEPT !.pc = "linkRead", !.attempts = Append(@, r.idx)]

\* A click on 'Add Link' of connection i.
AddLink(p, i) ==
    /\ run[p].pc = "idle"
    /\ run[p].suggestionsOpen
    /\ i \in 1..Len(run[p].connections)
    /\ run' = [run EXCEPT ![p] =
                  InsertWikiLink([run[p] EXCEPT !.kind = "addLink", !.idx = i])]
    /\ UNCHANGED <<settings, folders, files, tmp, now, files0>>

\* 'Add All Links': after the loop, the notice and this.close().
AddAllEnd(r) ==
    [Finish(r, AddedLinks(r.added, r.failed)) EXCEPT !.suggestionsOpen = FALSE]

\* A click on 'Add All Links'.
AddAllLinks(p) ==
    /\ run[p].pc = "idle"
    /\ run[p].suggestionsOpen
    /\ LET r == [run[p] EXCEPT !.kind = "addAll", !.idx = 1]
       IN  run' = [run EXCEPT ![p] =
                      IF r.connections = <<>> THEN AddAllEnd(r)
                      ELSE InsertWikiLink(r)]
    /\ UNCHANGED <<settings, folders, files, tmp, now, files0>>

\* What the click handlers do with the outcome of insertWikiLink: "true",
\* "false" or "throw".
AfterInsert(r, outcome, message) ==
    IF r.kind = "addLink"
    THEN Finish(r, CASE outcome = "true" -> AddedLinkTo(r.connections[r.idx].targetFile)
                     [] outcome = "false" -> TextNotFound
                     [] OTHER -> <<"Error adding link: ">> \o message)
    ELSE LET counted == CASE outcome = "true" -> [r EXCEPT !.added = @ + 1]
                          [] outcome = "false" -> [r EXCEPT !.failed = @ + 1]
                          [] OTHER -> AddAllCatch(r)
         IN  IF counted.idx < Len(counted.connections)
             THEN InsertWikiLink([counted EXCEPT !.idx = @ + 1])
             ELSE AddAllEnd(counted)

\* vault.read(file) of insertWikiLink completes: the link is put in place
\* of the source text and, if that changed the content, vault.modify is
\* called.
LinkReadDone(p) ==
    /\ run[p].pc = "linkRead"
    /\ \E ok \in BOOLEAN :
         LET r       == run[p]
             c       == r.connections[r.idx]
             content == FileAt(files, r.currentFile).content
             updatedContent == Replace(content, c.sourceText, WikiLink(c.targetFile))
         IN  run' = [run EXCEPT ![p] =
                IF ~ok \/ ~IsFile(files, r.currentFile)
                THEN AfterInsert(r, "throw", <<"read failed">>)
                ELSE IF updatedContent # content
                THEN [r EXCEPT !.pc = "linkModify", !.updatedContent = updatedContent]
                ELSE AfterInsert(r, "false", <<>>)]
    /\ UNCHANGED <<settings, folders, files, tmp, now, files0>>

\* vault.modify(file, updatedContent) of insertWikiLink completes.
LinkModifyDone(p) ==
    /\ run[p].pc = "linkModify"
    /\ \E ok \in BOOLEAN :
         LET r == run[p]
         IN  IF ok /\ IsFile(files, r.currentFile)
             THEN /\ files' = VaultModify(files, r.currentFile, r.updatedContent, now)
                  /\ run' = [run EXCEPT ![p] = AfterInsert(r, "true", <<>>)]
             ELSE /\ files' = files
                  /\ run' = [run EXCEPT ![p] =
                                 AfterInsert(r, "throw", <<"write failed">>)]
    /\ UNCHANGED <<settings, folders, tmp, now, files0>>

----------------------------------------------------------------------------
(* saveJournalEntry, called by the 'Save Only' button and by
   quickJournalWithAnalysis *)

EntrySaved == <<"Journal entry saved!">>

\* `${this.settings.journalFolder}/${today}.md`
JournalPath(journalFolder) == journalFolder \o <<"/">> \o Today \o <<".", "m", "d">>

\* new Date().toLocaleTimeString('en-US', ...)
Timestamp(time) == <<ToString(time), ":00 PM">>

\* Mutant of NewContent: the entry replaces what the file held.
NewContentOnly(existingContent, time, entry) ==
    <<"\n\n", "## ">> \o Timestamp(time) \o <<"\n\n">> \o entry

\* `${existingContent}\n\n## ${timestamp}\n\n${entry}`
NewContent(existingContent, time, entry) ==
    existingContent \o <<"\n\n", "## ">> \o Timestamp(time) \o <<"\n\n">> \o entry

\* The content of a new journal file: frontmatter, title and entry.
NewJournalFile(entry) ==
    <<"---\ndate: ">> \o Today \o <<"\ntype: journal\ntags: [journal]\n---\n\n# ">>
        \o Today \o <<"\n\n">> \o entry \o <<"\n">>

\* The catch block of the caller of saveJournalEntry: the 'Save Only'
\* listener or quickJournalWithAnalysis.
SaveCatch(r, message) ==
    IF r.kind = "quick" THEN QuickCatch(r, message)
    ELSE Finish(r, <<"Error saving entry: ">> \o message)

\* saveJournalEntry from the lookup of today's file to the next await:
\* vault.read of the file, or vault.create of a new one.
SaveLookup(r, fs) ==
    IF IsFile(fs, JournalPath(settings.journalFolder))
    THEN [r EXCEPT !.pc = "saveRead", !.writeOp = "modify"]
    ELSE [r EXCEPT !.pc = "saveWrite", !.writeOp = "create",
                   !.newContent = NewJournalFile(r.entry)]

\* A click on 'Save Only' with `entry` in the text area (trimmed, not
\* empty), up to the first await of saveJournalEntry.
SaveJournalEntry(p, entry) ==
    /\ run[p].pc = "idle"
    /\ LET r == [run[p] EXCEPT !.kind = "save", !.entry = entry]
       IN  run' = [run EXCEPT ![p] =
              IF ~PathExists(folders, files, settings.journalFolder)
              THEN [r EXCEPT !.pc = "saveFolder"]
              ELSE SaveLookup(r, files)]
    /\ UNCHANGED <<settings, folders, files, tmp, now, files0>>

\* vault.createFolder(journalFolder) completes.
SaveFolderDone(p) ==
    /\ run[p].pc = "saveFolder"
    /\ \E ok \in BOOLEAN :
         LET r == run[p]
         IN  IF ok /\ ~PathExists(folders, files, settings.journalFolder)
             THEN /\ folders' = folders \cup {settings.journalFolder}
                  /\ run' = [run EXCEPT ![p] = SaveLookup(r, files)]
             ELSE /\ folders' = folders
                  /\ run' = [run EXCEPT ![p] =
                         SaveCatch(r, IF ok THEN <<"Folder already exists.">>
                                      ELSE <<"createFolder failed">>)]
    /\ UNCHANGED <<settings, files, tmp, now, files0>>

\* vault.read(existingFile) completes: the new content is made and
\* vault.modify is called.
SaveReadDone(p) ==
    /\ run[p].pc = "saveRead"
    /\ \E ok \in BOOLEAN :
         LET r    == run[p]
             path == JournalPath(settings.journalFolder)
         IN  run' = [run EXCEPT ![p] =
                IF ~ok \/ ~IsFile(files, path)
                THEN SaveCatch(r, <<"read failed">>)
                ELSE [r EXCEPT !.pc = "saveWrite",
                               !.existingContent = FileAt(files, path).content,
                               !.newContent =
                                   NewContent(FileAt(files, path).content, now,
                                              r.entry)]]
    /\ UNCHANGED <<settings, folders, files, tmp, now, files0>>

\* Mutant of AfterSave: quickJournalWithAnalysis shows 'Journal entry
\* saved!' as soon as saveJournalEntry has returned.
AfterSaveNotified(r, path, fs) ==
    IF r.kind = "quick"
    THEN [Notify(r, EntrySaved) EXCEPT !.pc = "readCurrent",
                                       !.currentFile = path,
                                       !.recentFiles = PathsOf(fs)]
    ELSE [Notify(r, EntrySaved) EXCEPT !.pc = "saveOpen"]

\* saveJournalEntry has returned the file at path, now that the vault
\* holds fs: the 'Save Only' listener shows its notice and opens the file,
\* quickJournalWithAnalysis lists the vault's files and calls
\* analyzeConnections, which reads the file.
AfterSave(r, path, fs) ==
    IF r.kind = "quick"
    THEN [r EXCEPT !.pc = "readCurrent", !.currentFile = path,
                   !.recentFiles = PathsOf(fs)]
    ELSE [Notify(r, EntrySaved) EXCEPT !.pc = "saveOpen"]

\* vault.modify or vault.create completes.
SaveWriteDone(p) ==
    /\ run[p].pc = "saveWrite"
    /\ \E ok \in BOOLEAN :
         LET r    == run[p]
             path == JournalPath(settings.journalFolder)
             can  == IF r.writeOp = "modify"
                     THEN IsFile(files, path)
                     ELSE /\ ~PathExists(folders, files, path)
                          /\ ParentOf(path) \in folders
         IN  IF ok /\ can
             THEN /\ files' = IF r.writeOp = "modify"
                               THEN VaultModify(files, path, r.newContent, now)
                               ELSE VaultCreate(files, path, r.newContent, now)
                  /\ run' = [run EXCEPT ![p] = AfterSave(r, path, files')]
             ELSE /\ files' = files
                  /\ run' = [run EXCEPT ![p] =
                         SaveCatch(r, IF ok /\ r.writeOp = "create"
                                      THEN <<"File already exists.">>
                                      ELSE <<"write failed">>)]
    /\ UNCHANGED <<settings, folders, tmp, now, files0>>

\* openFile(journalFile) completes.
SaveOpenDone(p) ==
    /\ run[p].pc = "saveOpen"
    /\ \E ok \in BOOLEAN :
         run' = [run EXCEPT ![p] =
                    IF ok THEN [run[p] EXCEPT !.pc = "done"]
                    ELSE SaveCatch(run[p], <<"open failed">>)]
    /\ UNCHANGED <<settings, folders, files, tmp, now, files0>>

\* quickJournalWithAnalysis(entry), called by the 'Save & Analyze' button
\* with the trimmed, non-empty text: the progress modal opens and
\* saveJournalEntry runs up to its first await.
QuickJournalWithAnalysis(p, entry) ==
    /\ run[p].pc = "idle"
    /\ LET r == [run[p] EXCEPT !.kind = "quick", !.entry = entry,
                               !.modalOpen = TRUE]
       IN  run' = [run EXCEPT ![p] =
              IF ~PathExists(folders, files, settings.journalFolder)
              THEN [r EXCEPT !.pc = "saveFolder"]
              ELSE SaveLookup(r, files)]
    /\ UNCHANGED <<settings, folders, files, tmp, now, files0>>

\* openFile(journalFile) completes in quickJournalWithAnalysis.
QuickOpenDone(p) ==
    /\ run[p].pc = "quickOpen"
    /\ \E ok \in BOOLEAN :
         run' = [run EXCEPT ![p] =
                    IF ok THEN [run[p] EXCEPT !.pc = "done"]
                    ELSE QuickCatch(run[p], <<"open failed">>)]
    /\ UNCHANGED <<settings, folders, files, tmp, now, files0>>

----------------------------------------------------------------------------
(* Initial states *)

Journal == <<"j", "o", "u", "r", "n", "a", "l">>
JournalMeta == Journal \o <<"/", "m", "e", "t", "a">>

DEFAULT_SETTINGS ==
    [journalFolder |-> Journal, metaFolder |-> JournalMeta,
     connectionMinConfidence |-> 70]

Date(month, day) == <<"2", "0", "2", "5", "-">> \o month \o <<"-">> \o day

D1001 == Date(<<"1", "0">>, <<"0", "1">>)
D1002 == Date(<<"1", "0">>, <<"0", "2">>)
D1003 == Date(<<"1", "0">>, <<"0", "3">>)
D1399 == Date(<<"1", "3">>, <<"9", "9">>)

Md(folder, name) == folder \o <<"/">> \o name \o <<".", "m", "d">>

OldNote == MetaNotePath(JournalMeta, D1001, D1002)

\* The folders a vault holding these files has, and any of `extra`.
RECURSIVE Ancestors(_)
Ancestors(path) ==
    IF ParentOf(path) = <<>> THEN {}
    ELSE {ParentOf(path)} \cup Ancestors(ParentOf(path))

FoldersOf(fs, extra) ==
    UNION {Ancestors(path) : path \in FilePaths(fs)}
        \cup extra \cup UNION {Ancestors(f) : f \in extra}

\* The vault's files: a listing of `paths`, each file modified before the
\* model starts and later than the one listed before it.
Listing(paths) ==
    [i \in 1..Len(paths) |->
        [path |-> paths[i], content |-> <<"body of ">> \o Basename(paths[i]),
         mtime |-> i - Len(paths)]]

Listings(pool, n) ==
    {Listing(paths) : paths \in
        {q \in UNION {[1..k -> pool] : k \in 0..n} :
            \A i, j \in 1..Len(q) : i # j => q[i] # q[j]}}

\* Listings in the order of `pool` (a sequence): one per subset.
RECURSIVE Pick(_, _)
Pick(pool, S) ==
    IF pool = <<>> THEN <<>>
    ELSE (IF Len(pool) \in S THEN Pick(SubSeq(pool, 1, Len(pool) - 1), S)
                                     \o <<pool[Len(pool)]>>
          ELSE Pick(SubSeq(pool, 1, Len(pool) - 1), S))

StartRuns(n) == [p \in Procs |-> [NoRun EXCEPT !.pc = IF p <= n THEN "idle" ELSE "off"]]

InitCommon ==
    /\ settings = DEFAULT_SETTINGS
    /\ files0 = files
    /\ tmp = [n \in {} |-> <<>>]
    /\ now = 0

----------------------------------------------------------------------------
(* Specification of the theme analysis: one analyzeJournalRange run *)

ThemePool ==
    <<Md(Journal, D1001), Md(Journal, D1002), OldNote,
      Md(<<"n", "o", "t", "e", "s">>, <<"i", "d", "e", "a">>)>>

ThemeDates == {D1001, D1002}

Init ==
    /\ \E S \in SUBSET (1..Len(ThemePool)) :
          /\ Cardinality(S) <= MaxFiles
          /\ files = Listing(Pick(ThemePool, S))
    /\ InitCommon
    /\ \E extra \in SUBSET {Journal, JournalMeta} :
          folders = FoldersOf(files, extra)
    /\ run = StartRuns(1)

Next ==
    \/ \E p \in Procs, startDate \in ThemeDates, endDate \in ThemeDates :
          AnalyzeJournalRange(p, startDate, endDate)
    \/ \E p \in Procs : PauseDone(p)
    \/ \E p \in Procs : ReadDone(p)
    \/ \E p \in Procs : WriteTempDone(p)
    \/ \E p \in Procs : ExecDone(p)
    \/ \E p \in Procs : UnlinkDone(p)
    \/ \E p \in Procs : CreateFolderDone(p)
    \/ \E p \in Procs : WriteNoteDone(p)
    \/ \E p \in Procs : OpenFileDone(p)
    \/ \E p \in Procs : Cancel(p)
    \/ Tick

Spec == Init /\ [][Next]_vars

----------------------------------------------------------------------------
(* Specification of the connection search: one findMissingConnections run *)

ConnPool ==
    <<Md(Journal, D1001), Md(<<"n", "o", "t", "e", "s">>, <<"i", "d", "e", "a">>)>>

ConnThresholds == {70, 95}

InitConn ==
    /\ tmp = [n \in {} |-> <<>>]
    /\ now = 0
    /\ \E c \in ConnThresholds :
          settings = [DEFAULT_SETTINGS EXCEPT !.connectionMinConfidence = c]
    /\ \E S \in SUBSET (1..Len(ConnPool)) : files = Listing(Pick(ConnPool, S))
    /\ folders = FoldersOf(files, {})
    /\ files0 = files
    /\ run = StartRuns(1)

NextConn ==
    \/ \E p \in Procs, activeFile \in FilePaths(files) \cup {<<>>} :
          FindMissingConnections(p, activeFile)
    \/ \E p \in Procs : ReadCurrentDone(p)
    \/ \E p \in Procs : ReadOtherDone(p)
    \/ \E p \in Procs : ConnWriteTempDone(p)
    \/ \E p \in Procs : ConnExecDone(p)
    \/ \E p \in Procs : ConnUnlinkDone(p)
    \/ \E p \in Procs : Cancel(p)

SpecConn == InitConn /\ [][NextConn]_vars

----------------------------------------------------------------------------
(* Specification of the file selection: analyzeJournalRange up to the       *)
(* return of getJournalFilesInRange, over vaults listed in any order        *)

Notes == <<"n", "o", "t", "e", "s">>

SelectPool ==
    {Md(Journal, D1001), Md(Journal, D1002), Md(Journal, D1399),
     Md(Journal, <<"t", "o", "d", "o">>),
     Md(Journal, <<"N">> \o D1003),
     Md(Journal, <<"a">> \o D1003 \o <<"x">>),
     Md(Journal \o <<"/", "a">>, D1001),
     Md(Journal \o <<"2">>, D1001),
     Md(Notes, D1002),
     OldNote}

SelectDates == {D1001, D1002, D1003, D1399}

InitSelect ==
    /\ files \in Listings(SelectPool, MaxFiles)
    /\ InitCommon
    /\ \E extra \in SUBSET {Journal} : folders = FoldersOf(files, extra)
    /\ run = StartRuns(1)

NextSelect ==
    \E p \in Procs, startDate \in SelectDates, endDate \in SelectDates :
        AnalyzeJournalRange(p, startDate, endDate)

SpecSelect == InitSelect /\ [][NextSelect]_vars

----------------------------------------------------------------------------
(* One findMissingConnections run whose tool prints an array of elements
   that may not be Connection-shaped *)

ShapeAtoms == {"{confidence:70}", "null"} \cup MalformedObjects

ShapeOutputs ==
    {<<"[", a, "]">> : a \in ShapeAtoms}
        \cup {<<"[", a, ",", b, "]">> : a \in ShapeAtoms, b \in ShapeAtoms}

NextShape ==
    \/ \E p \in Procs, activeFile \in FilePaths(files) \cup {<<>>} :
          FindMissingConnections(p, activeFile)
    \/ \E p \in Procs : ReadCurrentDone(p)
    \/ \E p \in Procs : ReadOtherDone(p)
    \/ \E p \in Procs : ConnWriteTempDone(p)
    \/ \E p \in Procs : ConnExecSettles(p, ShapeOutputs)
    \/ \E p \in Procs : ConnUnlinkDone(p)
    \/ \E p \in Procs : Cancel(p)

SpecShape == InitConn /\ [][NextShape]_vars

----------------------------------------------------------------------------
(* Two analyzeJournalRange runs over one vault: one after the other
   (SpecTwice), or interleaved at their awaits (SpecTwo) *)

InitTwo ==
    /\ files = Listing(<<Md(Journal, D1001)>>)
    /\ InitCommon
    /\ \E extra \in SUBSET {JournalMeta} : folders = FoldersOf(files, extra)
    /\ run = StartRuns(2)

\* No command is between its start and its end.
NoneRunning == \A q \in Procs : run[q].pc \in {"off", "idle", "done"}

NextTwice ==
    \/ \E p \in Procs, endDate \in ThemeDates :
          /\ NoneRunning
          /\ \A q \in Procs : q < p => run[q].pc = "done"
          /\ AnalyzeJournalRange(p, D1001, endDate)
    \/ \E p \in Procs : PauseDone(p)
    \/ \E p \in Procs : ReadDone(p)
    \/ \E p \in Procs : WriteTempDone(p)
    \/ \E p \in Procs : ExecDone(p)
    \/ \E p \in Procs : UnlinkDone(p)
    \/ \E p \in Procs : CreateFolderDone(p)
    \/ \E p \in Procs : WriteNoteDone(p)
    \/ \E p \in Procs : OpenFileDone(p)
    \/ Tick

SpecTwice == InitTwo /\ [][NextTwice]_vars

\* Both runs are over the same range; the progress modal is left alone.
NextTwo ==
    \/ \E p \in Procs : AnalyzeJournalRange(p, D1001, D1001)
    \/ \E p \in Procs : PauseDone(p)
    \/ \E p \in Procs : ReadDone(p)
    \/ \E p \in Procs : WriteTempDone(p)
    \/ \E p \in Procs : ExecDone(p)
    \/ \E p \in Procs : UnlinkDone(p)
    \/ \E p \in Procs : CreateFolderDone(p)
    \/ \E p \in Procs : WriteNoteDone(p)
    \/ \E p \in Procs : OpenFileDone(p)
    \/ Tick

SpecTwo == InitTwo /\ [][NextTwo]_vars

----------------------------------------------------------------------------
(* The suggestion modal is open on a note: one click on 'Add Link' or on
   'Add All Links' *)

LinkNote == Md(Notes, <<"n">>)

LinkContents == {<<"a", "b", "a", "b">>, <<"b", "a", "c">>, <<"b">>}

LinkSources == {<<"a">>, <<"a", "b">>, <<"z">>}

LinkTargets ==
    {<<"t", ".", "m", "d">>, <<"$", "&", ".", "m", "d">>,
     <<"$", "$", ".", "m", "d">>}

LinkConnections == [sourceText : LinkSources, targetFile : LinkTargets]

MaxLinks == 2

InitLinks ==
    /\ \E content \in LinkContents :
          files = <<[path |-> LinkNote, content |-> content, mtime |-> 0]>>
    /\ InitCommon
    /\ folders = FoldersOf(files, {})
    /\ \E connections \in UNION {[1..n -> LinkConnections] : n \in 1..MaxLinks} :
          run = [p \in Procs |->
                    IF p = 1
                    THEN [NoRun EXCEPT !.pc = "idle", !.currentFile = LinkNote,
                                       !.connections = connections,
                                       !.suggestionsOpen = TRUE]
                    ELSE NoRun]

NextLinks ==
    \/ \E p \in Procs, i \in 1..MaxLinks : AddLink(p, i)
    \/ \E p \in Procs : AddAllLinks(p)
    \/ \E p \in Procs : LinkReadDone(p)
    \/ \E p \in Procs : LinkModifyDone(p)

SpecLinks == InitLinks /\ [][NextLinks]_vars

----------------------------------------------------------------------------
(* One analyzeJournalRange run over journal files of any body, the text
   "## Entry:" included *)

Bodies == {<<>>, <<"plain">>, <<"x", "\n\n", "## Entry:", " ", "y">>}

BodiesPool == <<Md(Journal, D1001), Md(Journal, D1002)>>

InitBodies ==
    /\ \E S \in SUBSET (1..Len(BodiesPool)) :
          \E body \in [1..Cardinality(S) -> Bodies] :
              files = [i \in 1..Cardinality(S) |->
                          [path |-> Pick(BodiesPool, S)[i], content |-> body[i],
                           mtime |-> 0]]
    /\ InitCommon
    /\ \E extra \in SUBSET {JournalMeta} :
          folders = FoldersOf(files, {Journal} \cup extra)
    /\ run = StartRuns(1)

SpecBodies == InitBodies /\ [][Next]_vars

----------------------------------------------------------------------------
(* Saves of journal entries on one day, one after the other *)

Entries == {<<"first entry">>, <<"second", " ", "entry">>}

DayFiles ==
    {<<>>,
     <<[path |-> JournalPath(Journal), content |-> <<"morning", "\n">>, mtime |-> 0]>>}

InitSave ==
    /\ files \in DayFiles
    /\ InitCommon
    /\ \E extra \in SUBSET {Journal} : folders = FoldersOf(files, extra)
    /\ run = StartRuns(2)

NextSave ==
    \/ \E p \in Procs, entry \in Entries :
          /\ NoneRunning
          /\ \A q \in Procs : q < p => run[q].pc = "done"
          /\ SaveJournalEntry(p, entry)
    \/ \E p \in Procs : SaveFolderDone(p)
    \/ \E p \in Procs : SaveReadDone(p)
    \/ \E p \in Procs : SaveWriteDone(p)
    \/ \E p \in Procs : SaveOpenDone(p)
    \/ Tick

SpecSave == InitSave /\ [][NextSave]_vars

----------------------------------------------------------------------------
(* One findMissingConnections run up to the written prompt, over vaults of
   up to 52 notes with bodies of up to 501 characters *)

VaultSizes == {1, 3, 51, 52}

\* Modification times that rise, fall, or repeat along the listing.
MtimeOrders == {"rising", "falling", "repeating"}

\* A body of n characters, its k-th one telling odd from even.
BodyOf(n) == [k \in 1..n |-> IF k % 2 = 1 THEN "x" ELSE "y"]

BodyLengths == <<501, 500, 499, 0>>

CandidateVault(size, order) ==
    [i \in 1..size |->
        [path    |-> Md(Notes, <<"f", ToString(i)>>),
         content |-> BodyOf(IF i % 16 < 4 THEN BodyLengths[(i % 16) + 1] ELSE 2),
         mtime   |-> CASE order = "rising" -> i
                       [] order = "falling" -> 0 - i
                       [] OTHER -> i % 3]]

InitCandidates ==
    /\ \E size \in VaultSizes, order \in MtimeOrders :
          files = CandidateVault(size, order)
    /\ InitCommon
    /\ folders = FoldersOf(files, {})
    /\ run = StartRuns(1)

\* The active file is the first or the last of the listing, or there is none.
NextCandidates ==
    \/ \E p \in Procs,
          activeFile \in {files[1].path, files[Len(files)].path, <<>>} :
          FindMissingConnections(p, activeFile)
    \/ \E p \in Procs : ReadCurrentDone(p)
    \/ \E p \in Procs : ReadOtherDone(p)
    \/ \E p \in Procs : ConnWriteTempDone(p)

SpecCandidates == InitCandidates /\ [][NextCandidates]_vars


----------------------------------------------------------------------------
(* One run of any of the three commands: analyzeJournalRange,
   findMissingConnections, quickJournalWithAnalysis *)

CommandPool == <<Md(Journal, D1001), Md(Journal, Today)>>

\* Answers of the tool to a connection prompt: nothing, prose, an empty
\* array, an array of one or two records, and a region that is not JSON.
CommandOutputs ==
    {<<>>, <<"prose">>, <<"[", "]">>, <<"[", "{confidence:70}", "]">>,
     <<"[", "{confidence:95}", ",", "{confidence:70}", "]">>,
     <<"[", "prose", "]">>}

InitCommands ==
    /\ \E S \in SUBSET (1..Len(CommandPool)) :
          files = Listing(Pick(CommandPool, S))
    /\ InitCommon
    /\ \E extra \in SUBSET {Journal} : folders = FoldersOf(files, extra)
    /\ run = StartRuns(1)

NextCommands ==
    \/ \E p \in Procs : AnalyzeJournalRange(p, D1001, D1001)
    \/ \E p \in Procs : PauseDone(p)
    \/ \E p \in Procs : ReadDone(p)
    \/ \E p \in Procs : WriteTempDone(p)
    \/ \E p \in Procs : ExecDone(p)
    \/ \E p \in Procs : UnlinkDone(p)
    \/ \E p \in Procs : CreateFolderDone(p)
    \/ \E p \in Procs : WriteNoteDone(p)
    \/ \E p \in Procs : OpenFileDone(p)
    \/ \E p \in Procs, activeFile \in FilePaths(files) \cup {<<>>} :
          FindMissingConnections(p, activeFile)
    \/ \E p \in Procs, entry \in Entries : QuickJournalWithAnalysis(p, entry)
    \/ \E p \in Procs : SaveFolderDone(p)
    \/ \E p \in Procs : SaveReadDone(p)
    \/ \E p \in Procs : SaveWriteDone(p)
    \/ \E p \in Procs : ReadCurrentDone(p)
    \/ \E p \in Procs : ReadOtherDone(p)
    \/ \E p \in Procs : ConnWriteTempDone(p)
    \/ \E p \in Procs : ConnExecSettles(p, CommandOutputs)
    \/ \E p \in Procs : ConnUnlinkDone(p)
    \/ \E p \in Procs : QuickOpenDone(p)
    \/ \E p \in Procs : Cancel(p)

SpecCommands == InitCommands /\ [][NextCommands]_vars


----------------------------------------------------------------------------
(* The suggestion modal is open on a note: clicks on 'Add Link', one after
   the other, and then one on 'Add All Links', which closes the modal *)

\* No click on 'Add All Links' has been made: the modal is still open.
SuggestionsStillOpen == \A q \in Procs : run[q].kind # "addAll"

InitClicks ==
    /\ \E content \in LinkContents :
          files = <<[path |-> LinkNote, content |-> content, mtime |-> 0]>>
    /\ InitCommon
    /\ folders = FoldersOf(files, {})
    /\ \E connections \in UNION {[1..n -> LinkConnections] : n \in 1..MaxLinks} :
          run = [p \in Procs |->
                    [NoRun EXCEPT !.pc = "idle", !.currentFile = LinkNote,
                                  !.connections = connections,
                                  !.suggestionsOpen = TRUE]]

\* Each click is handled by the next run, once the handler of the click
\* before it has ended.
NextClicks ==
    \/ \E p \in Procs, i \in 1..MaxLinks :
          /\ SuggestionsStillOpen
          /\ \A q \in Procs : q < p => run[q].pc = "done"
          /\ AddLink(p, i)
    \/ \E p \in Procs :
          /\ SuggestionsStillOpen
          /\ \A q \in Procs : q < p => run[q].pc = "done"
          /\ AddAllLinks(p)
    \/ \E p \in Procs : LinkReadDone(p)
    \/ \E p \in Procs : LinkModifyDone(p)

SpecClicks == InitClicks /\ [][NextClicks]_vars

----------------------------------------------------------------------------
(* Claims *)

\* getJournalFilesInRange has returned to run p (it did not throw).
Selected(p) ==
    /\ run[p].kind = "theme"
    /\ PathExists(folders, files, settings.journalFolder)

UnderFolder(path, folder) == StartsWith(path, folder \o <<"/">>)

DateInRange(path, startDate, endDate) ==
    LET d == DateMatch(Basename(path))
    IN  d # <<>> /\ StrLeq(startDate, d) /\ StrLeq(d, endDate)

NoRepeats(seq) == \A i, j \in 1..Len(seq) : i # j => seq[i] # seq[j]

Range(seq) == {seq[i] : i \in 1..Len(seq)}

AscendingByBasename(paths) ==
    \A i \in 1..(Len(paths) - 1) :
        LocaleCompare(Basename(paths[i]), Basename(paths[i + 1])) <= 0

\* C1: whenever getJournalFilesInRange returns, its result holds exactly the
\* files under the journal folder whose extracted date d satisfies
\* start <= d <= end (both inclusive, compared as strings), each once, in
\* ascending order of basename.
C1_SelectsFilesUnderFolder ==
    \A p \in Procs :
        Selected(p) =>
            /\ Range(run[p].journalFiles) =
                   {path \in FilePaths(files) :
                       /\ UnderFolder(path, settings.journalFolder)
                       /\ DateInRange(path, run[p].startDate, run[p].endDate)}
            /\ NoRepeats(run[p].journalFiles)
            /\ AscendingByBasename(run[p].journalFiles)

\* The same with "under the journal folder" read as the code reads it: the
\* path starts with the journalFolder setting.
C1_SelectsFilesWithPrefix ==
    \A p \in Procs :
        Selected(p) =>
            /\ Range(run[p].journalFiles) =
                   {path \in FilePaths(files) :
                       /\ StartsWith(path, settings.journalFolder)
                       /\ DateInRange(path, run[p].startDate, run[p].endDate)}
            /\ NoRepeats(run[p].journalFiles)
            /\ AscendingByBasename(run[p].journalFiles)

----------------------------------------------------------------------------
(* Claims about analyzeJournalRange, under Spec *)

Last(seq) == seq[Len(seq)]

\* The path of the note the run writes.
Target(p) == MetaNotePath(settings.metaFolder, run[p].startDate, run[p].endDate)

Absent == <<"(no file)">>

NoteAt(fs, path) == IF IsFile(fs, path) THEN FileAt(fs, path).content ELSE Absent

\* The run has ended and its only notice is an error of analyzeJournalRange.
ThemeError(p) ==
    /\ run[p].pc = "done"
    /\ ~run[p].modalOpen
    /\ Len(run[p].notices) = 1
    /\ StartsWith(run[p].notices[1], <<"Error analyzing journal: ">>)

NoMatchingFile(p) ==
    \A path \in FilePaths(files) :
        ~(/\ StartsWith(path, settings.journalFolder)
          /\ DateInRange(path, run[p].startDate, run[p].endDate))

\* C2: when the journal folder exists and no file matches the range, the
\* selection is empty, the run ends with the one notice "No journal entries
\* found in the specified range", the external tool is never called and no
\* note is written.
C2_NothingFound ==
    \A p \in Procs :
        (/\ run[p].kind = "theme"
         /\ PathExists(folders, files, settings.journalFolder)
         /\ NoMatchingFile(p))
        => /\ run[p].pc = "done"
           /\ run[p].journalFiles = <<>>
           /\ run[p].notices = <<NothingFound>>
           /\ ~run[p].modalOpen
           /\ run[p].execs = 0
           /\ run[p].noteWrites = 0
           /\ files = files0

\* A run over a range whose start is after its end has reported "nothing found".
C2_Witness ==
    \E p \in Procs :
        /\ run[p].kind = "theme"
        /\ PathExists(folders, files, settings.journalFolder)
        /\ StrLt(run[p].endDate, run[p].startDate)
        /\ \E path \in FilePaths(files) : UnderFolder(path, settings.journalFolder)
        /\ run[p].notices = <<NothingFound>>

\* C3: when the journal folder does not exist, the run ends with the one
\* error notice "Journal folder not found", the external tool is never
\* called and no note is created or modified.
C3_FolderNotFound ==
    \A p \in Procs :
        (/\ run[p].kind = "theme"
         /\ ~PathExists(folders, files, settings.journalFolder))
        => /\ ThemeError(p)
           /\ run[p].notices[1] =
                  <<"Error analyzing journal: ", "Journal folder not found: ">>
                      \o settings.journalFolder
           /\ run[p].execs = 0
           /\ run[p].noteWrites = 0
           /\ files = files0

\* A run has ended on a vault without the journal folder.
C3_Witness ==
    \E p \in Procs :
        /\ run[p].kind = "theme"
        /\ ~PathExists(folders, files, settings.journalFolder)
        /\ files # <<>>
        /\ run[p].pc = "done"

IsFooter(text) ==
    /\ Len(text) = 5
    /\ text[1] = "\n\n---\n*Generated by Journal Analyzer Plugin*\n*Entries analyzed: "
    /\ text[3] = "*\n*Generated: "
    /\ text[5] = "*"

\* content is the frontmatter of the run's range, the run's trimmed,
\* non-empty analysis, and a footer.
CompleteNote(content, r) ==
    LET fm   == Frontmatter(r.startDate, r.endDate)
        body == Trim(r.stdout)
    IN  /\ body # <<>>
        /\ Len(content) = Len(fm) + Len(body) + 5
        /\ SubSeq(content, 1, Len(fm)) = fm
        /\ SubSeq(content, Len(fm) + 1, Len(fm) + Len(body)) = body
        /\ IsFooter(SubSeq(content, Len(fm) + Len(body) + 1, Len(content)))

\* C4: at every point of a run, and so whichever step fails, the note at
\* the run's target path is either what it was before the run or the
\* complete note (frontmatter + analysis + footer); every other file is as
\* it was.
C4_NoPartialNote ==
    \A p \in Procs :
        run[p].kind = "theme" =>
            /\ \/ NoteAt(files, Target(p)) = NoteAt(files0, Target(p))
               \/ CompleteNote(NoteAt(files, Target(p)), run[p])
            /\ \A path \in FilePaths(files) \cup FilePaths(files0) :
                   path # Target(p) => NoteAt(files, path) = NoteAt(files0, path)

\* A run has failed after its note was written: the note is complete.
C4_Witness ==
    \E p \in Procs :
        /\ ThemeError(p)
        /\ run[p].noteWrites = 1
        /\ NoteAt(files, Target(p)) # NoteAt(files0, Target(p))
        /\ NoteAt(files0, Target(p)) # Absent

\* C5: when the external tool exits normally with nothing or only white
\* space on stdout, the run ends with an error notice and the note at the
\* target path is neither created nor modified.
C5_EmptyOutput ==
    \A p \in Procs :
        (/\ run[p].kind = "theme"
         /\ run[p].promise = "resolved"
         /\ Trim(run[p].stdout) = <<>>)
        => /\ run[p].pc \in {"unlink", "done"}
           /\ run[p].pc = "done" => ThemeError(p)
           /\ run[p].noteWrites = 0
           /\ NoteAt(files, Target(p)) = NoteAt(files0, Target(p))

\* A run has ended after an output of white space only, its temporary file
\* removed.
C5_Witness ==
    \E p \in Procs :
        /\ run[p].kind = "theme"
        /\ run[p].promise = "resolved"
        /\ run[p].stdout # <<>>
        /\ Trim(run[p].stdout) = <<>>
        /\ run[p].tempFile \notin DOMAIN tmp
        /\ ThemeError(p)

\* The run ended because unlink itself failed.
UnlinkFailed(p) ==
    run[p].notices # <<>> /\ Last(Last(run[p].notices)) = "unlink failed"

\* C6: once a run that called the external tool has ended, the temporary
\* prompt file it wrote no longer exists (unless the removal itself failed).
C6_TempFileRemoved ==
    \A p \in Procs :
        (/\ run[p].pc = "done"
         /\ run[p].promise \in {"resolved", "rejected"}
         /\ ~UnlinkFailed(p))
        => run[p].tempFile \notin DOMAIN tmp

\* C7: a run cancelled while the external tool was running writes no note
\* and opens no suggestion modal.
C7_CancelDiscardsResult ==
    \A p \in Procs :
        run[p].cancelledAt \in {"exec", "connExec"}
            => run[p].noteWrites = 0 /\ ~run[p].suggestionsOpen

----------------------------------------------------------------------------
(* Claims about findMissingConnections, under SpecConn *)

\* The run got the tool's output, removed its temporary file and ended.
ConnEnded(p) ==
    /\ run[p].kind = "connections"
    /\ run[p].promise = "resolved"
    /\ run[p].pc = "done"
    /\ ~UnlinkFailed(p)

\* The run has ended and its only notice is an error of findMissingConnections.
ConnError(p) ==
    /\ run[p].pc = "done"
    /\ Len(run[p].notices) = 1
    /\ StartsWith(run[p].notices[1], <<"Error finding connections: ">>)
    /\ ~run[p].suggestionsOpen
    /\ run[p].connections = <<>>

\* The run has ended with "no suggestions" and nothing else.
NoneFound(p) ==
    /\ run[p].notices = <<NoSuggestions>>
    /\ ~run[p].suggestionsOpen
    /\ run[p].connections = <<>>

\* The spans of text that are a well-formed JSON array.
ArraySpans(text) ==
    {sp \in (1..Len(text)) \X (1..Len(text)) :
        /\ sp[1] < sp[2]
        /\ text[sp[1]] = "["
        /\ text[sp[2]] = "]"
        /\ JsonParse(SubSeq(text, sp[1], sp[2])).ok}

OneArray(text) == Cardinality(ArraySpans(text)) = 1

TheSpan(text) == CHOOSE sp \in ArraySpans(text) : TRUE

TheArray(text) == SubSeq(text, TheSpan(text)[1], TheSpan(text)[2])

AtLeast(atom) ==
    atom \in JsonObjects /\ ConfidenceOf(atom) >= settings.connectionMinConfidence

\* The confidences of the array's records that reach the threshold, in order.
Expected(text) ==
    LET kept == SelectSeq(TheArray(text), AtLeast)
    IN  [i \in 1..Len(kept) |-> ConfidenceOf(kept[i])]

Confidences(connections) ==
    [i \in 1..Len(connections) |-> connections[i].confidence]

ReturnsTheRecords(p) ==
    IF Expected(run[p].stdout) = <<>>
    THEN NoneFound(p)
    ELSE /\ run[p].suggestionsOpen
         /\ run[p].notices = <<>>
         /\ Confidences(run[p].connections) = Expected(run[p].stdout)

\* C8 as stated: whenever the output holds one well-formed JSON array
\* among prose, the run returns exactly the array's records whose
\* confidence is at least the threshold.
C8_OneArrayAmongProse ==
    \A p \in Procs :
        (ConnEnded(p) /\ OneArray(run[p].stdout)) => ReturnsTheRecords(p)

\* No "[" before the array and no "]" after it.
ProseWithoutBrackets(text) ==
    /\ \A i \in 1..(TheSpan(text)[1] - 1) : text[i] # "["
    /\ \A i \in (TheSpan(text)[2] + 1)..Len(text) : text[i] # "]"

\* C8: when the output holds one well-formed JSON array, the prose before
\* it has no "[" and the prose after it has no "]", the run returns exactly
\* the array's records whose confidence is at least the threshold: a record
\* at the threshold is kept, one a point below is dropped.
C8_ArrayAmongPlainProse ==
    \A p \in Procs :
        (/\ ConnEnded(p)
         /\ OneArray(run[p].stdout)
         /\ ProseWithoutBrackets(run[p].stdout))
        => ReturnsTheRecords(p)

\* From prose, an array of a record at the threshold and one a point below,
\* and prose again, the run has returned the first record only.
C8_Witness ==
    \E p \in Procs :
        /\ ConnEnded(p)
        /\ OneArray(run[p].stdout)
        /\ ProseWithoutBrackets(run[p].stdout)
        /\ run[p].stdout[1] = "prose"
        /\ Last(run[p].stdout) = "prose"
        /\ settings.connectionMinConfidence = 70
        /\ \E i \in 1..Len(run[p].stdout) : run[p].stdout[i] = "{confidence:69}"
        /\ run[p].suggestionsOpen
        /\ Confidences(run[p].connections) = <<70>>

NoBracketRegion(text) ==
    ~\E i, j \in 1..Len(text) : i < j /\ text[i] = "[" /\ text[j] = "]"

\* C9: when the output is not empty (it has more than white space) and has
\* no "[" followed later by a "]", the run ends with the one notice "No
\* connection suggestions found", not an error, and shows no suggestions.
C9_NoRegionNoSuggestions ==
    \A p \in Procs :
        (/\ ConnEnded(p)
         /\ Trim(run[p].stdout) # <<>>
         /\ NoBracketRegion(run[p].stdout))
        => NoneFound(p)

\* The run has ended on an output whose only "]" is before its only "[".
C9_Witness ==
    \E p \in Procs :
        /\ ConnEnded(p)
        /\ NoBracketRegion(run[p].stdout)
        /\ \E i, j \in 1..Len(run[p].stdout) :
               i < j /\ run[p].stdout[i] = "]" /\ run[p].stdout[j] = "["
        /\ NoneFound(p)

\* From the first "[" of the text to its last "]".
BracketRegion(text) ==
    LET opens  == {i \in 1..Len(text) : text[i] = "["}
        closes == {i \in 1..Len(text) : text[i] = "]"}
    IN  SubSeq(text, CHOOSE i \in opens : \A k \in opens : i <= k,
                     CHOOSE j \in closes : \A k \in closes : k <= j)

\* C10: when the output has a bracket-delimited region that is not JSON,
\* the run ends with an error notice, never with "No connection suggestions
\* found", and shows no suggestions.
C10_MalformedRegionIsError ==
    \A p \in Procs :
        (/\ ConnEnded(p)
         /\ ~NoBracketRegion(run[p].stdout)
         /\ ~JsonParse(BracketRegion(run[p].stdout)).ok)
        => /\ ConnError(p)
           /\ run[p].notices # <<NoSuggestions>>

\* The run has ended with an error on an array with a trailing comma.
C10_Witness ==
    \E p \in Procs :
        /\ ConnEnded(p)
        /\ ~NoBracketRegion(run[p].stdout)
        /\ ~JsonParse(BracketRegion(run[p].stdout)).ok
        /\ \E i \in 1..(Len(run[p].stdout) - 1) :
               run[p].stdout[i] = "," /\ run[p].stdout[i + 1] = "]"
        /\ ConnError(p)

----------------------------------------------------------------------------
(* Claims about the shape of the decoded records, under SpecShape *)

\* C11: from an output that is a JSON array, the run does not fail, and
\* every connection it returns has a confidence that is a number from 0 to
\* 100: an element that is not Connection-shaped is dropped.
C11_ReturnedConnectionsWellShaped ==
    \A p \in Procs :
        ConnEnded(p) =>
            /\ ~ConnError(p)
            /\ \A i \in 1..Len(run[p].connections) :
                  /\ run[p].connections[i].raw = "number"
                  /\ run[p].connections[i].confidence \in 0..100

\* The part of C11 that the code keeps: an element without a confidence, or
\* whose confidence is no number at all, is never returned.
C11_NoConfidenceIsDropped ==
    \A p \in Procs :
        ConnEnded(p) =>
            \A i \in 1..Len(run[p].connections) :
                run[p].connections[i].raw \in {"number", "string"}

----------------------------------------------------------------------------
(* Claims about two analyzeJournalRange runs *)

\* Run p has ended with the one notice "Error analyzing journal: <message>".
ThemeFailedWith(p, message) ==
    /\ run[p].pc = "done"
    /\ run[p].notices = <<(<<"Error analyzing journal: ">> \o message)>>

FilesAt(fs, path) == {i \in 1..Len(fs) : fs[i].path = path}

SameRange(p, q) ==
    /\ run[p].kind = "theme"
    /\ run[q].kind = "theme"
    /\ run[p].startDate = run[q].startDate
    /\ run[p].endDate = run[q].endDate

\* C12 (under SpecTwice, where run 2 starts after run 1 has ended): when
\* run 1 has written the note of a range and run 2 is over the same range,
\* run 2 never fails because the note or its folder exists, and once run 2
\* has written, there is exactly one file at the target path and its
\* content is the frontmatter and the analysis of run 2.
C12_SecondWriteReplaces ==
    (SameRange(1, 2) /\ run[1].noteWrites = 1)
    => /\ ~ThemeFailedWith(2, <<"File already exists.">>)
       /\ ~ThemeFailedWith(2, <<"Folder already exists.">>)
       /\ Cardinality(FilesAt(files, Target(2))) = 1
       /\ run[2].noteWrites = 1
          => NoteAt(files, Target(2)) =
                 FullContent(run[2].analysis, run[2].startDate, run[2].endDate)

\* Both runs have written the note of the same range, with different
\* analyses, and the note holds the second one.
C12_Witness ==
    /\ SameRange(1, 2)
    /\ run[1].noteWrites = 1
    /\ run[2].noteWrites = 1
    /\ run[2].pc = "done"
    /\ run[1].analysis # run[2].analysis
    /\ NoteAt(files, Target(2)) =
           FullContent(run[2].analysis, run[2].startDate, run[2].endDate)
    /\ Cardinality(FilesAt(files, Target(2))) = 1

\* C13 (under SpecTwo, where the two runs interleave): no run over the same
\* range as the other ends with an error because the note exists by the
\* time it is created.
C13_NoRunFailsOnExistingNote ==
    \A p \in Procs :
        (\E q \in Procs \ {p} : SameRange(p, q))
            => ~ThemeFailedWith(p, <<"File already exists.">>)

\* What remains true of C13: whatever the interleaving, the note at the
\* target path is absent or the complete output of one of the runs.
C13_NoteIsOneRunsOutput ==
    \A p \in Procs :
        run[p].kind = "theme" =>
            \/ NoteAt(files, Target(p)) = Absent
            \/ \E q \in Procs :
                  /\ SameRange(p, q)
                  /\ CompleteNote(NoteAt(files, Target(p)), run[q])

----------------------------------------------------------------------------
(* Claims about insertWikiLink and 'Add All Links', under SpecLinks *)

Occurrences(text, part) ==
    {i \in 1..(Len(text) - Len(part) + 1) :
        \A k \in 1..Len(part) : text[i + k - 1] = part[k]}

\* text with the occurrence of `part` at i replaced by `by`.
ReplacedAt(text, i, part, by) ==
    SubSeq(text, 1, i - 1) \o by \o SubSeq(text, i + Len(part), Len(text))

FirstOf(S) == CHOOSE i \in S : \A j \in S : i <= j

\* "[[" + the target path without its ".md" + "]]"
LinkTo(targetFile) ==
    <<"[", "[">> \o SubSeq(targetFile, 1, Len(targetFile) - 3) \o <<"]", "]">>

\* Run p was one call of insertWikiLink that has returned (it did not throw).
Inserted(p) ==
    /\ run[p].kind = "addLink"
    /\ run[p].pc = "done"
    /\ run[p].notices \in
          {<<TextNotFound>>,
           <<AddedLinkTo(run[p].connections[run[p].idx].targetFile)>>}

\* What the claim says of the call of run p.
LinkedAsClaimed(p) ==
    LET c    == run[p].connections[run[p].idx]
        old  == NoteAt(files0, run[p].currentFile)
        occ  == Occurrences(old, c.sourceText)
    IN  IF occ = {}
        THEN run[p].notices = <<TextNotFound>> /\ files = files0
        ELSE NoteAt(files, run[p].currentFile) =
                 ReplacedAt(old, FirstOf(occ), c.sourceText, LinkTo(c.targetFile))

\* C14: insertWikiLink puts [[target without .md]] in place of the first
\* occurrence of the source text and changes nothing else; when the source
\* text does not occur, it returns false and the file is not modified.
C14_FirstOccurrenceLinked ==
    \A p \in Procs : Inserted(p) => LinkedAsClaimed(p)

\* The part of C14 that the code keeps: the same, for a target path
\* without "$".
C14_PlainTargetLinked ==
    \A p \in Procs :
        (/\ Inserted(p)
         /\ \A k \in 1..Len(run[p].connections[run[p].idx].targetFile) :
               run[p].connections[run[p].idx].targetFile[k] # "$")
        => LinkedAsClaimed(p)

\* C15: 'Add All Links' calls insertWikiLink once for every connection, in
\* order, whatever the earlier calls returned or threw: while it runs, the
\* calls made are those for connections 1..idx and added + failed counts the
\* calls that have ended; when it ends, added + failed is the number of
\* connections and the one notice reports the two counts.
C15_EveryConnectionAttempted ==
    \A p \in Procs :
        run[p].kind = "addAll" =>
            LET r == run[p]
            IN  IF r.pc = "done"
                THEN /\ r.attempts = [i \in 1..Len(r.connections) |-> i]
                     /\ r.added + r.failed = Len(r.connections)
                     /\ r.notices = <<AddedLinks(r.added, r.failed)>>
                     /\ ~r.suggestionsOpen
                ELSE /\ r.attempts = [i \in 1..r.idx |-> i]
                     /\ r.added + r.failed = r.idx - 1

\* A batch of two has ended: the source text of the first connection was
\* not in the note, the link of the second was added.
C15_Witness ==
    \E p \in Procs :
        /\ run[p].kind = "addAll"
        /\ run[p].pc = "done"
        /\ Len(run[p].connections) = 2
        /\ Occurrences(NoteAt(files0, run[p].currentFile),
                       run[p].connections[1].sourceText) = {}
        /\ run[p].failed = 1
        /\ run[p].added = 1
        /\ files # files0

----------------------------------------------------------------------------
(* Claims about the date taken from a basename, under SpecSelect *)

NoDate == <<>>

\* The ten characters of name from i on are dddd-dd-dd.
DateShaped(name, i) ==
    /\ i + 9 <= Len(name)
    /\ \A k \in {0, 1, 2, 3, 5, 6, 8, 9} : name[i + k] \in Digits
    /\ name[i + 4] = "-"
    /\ name[i + 7] = "-"

FirstDateShaped(name) ==
    LET at == {i \in 1..Len(name) : DateShaped(name, i)}
    IN  IF at = {} THEN NoDate ELSE SubSeq(name, FirstOf(at), FirstOf(at) + 9)

\* C16: the date extracted from a basename is its first substring of the
\* form dddd-dd-dd, whatever surrounds it, or no date; no calendar is
\* consulted: a file under the prefix whose first such substring lies in
\* the range is selected, 2025-13-99 like any other.
C16_FirstDateShapedSubstring ==
    /\ \A path \in FilePaths(files) :
          DateMatch(Basename(path)) = FirstDateShaped(Basename(path))
    /\ \A p \in Procs :
          (Selected(p) /\ run[p].pc \in {"pause", "done"}) =>
              \A path \in FilePaths(files) :
                  path \in Range(run[p].journalFiles)
                      <=> /\ StartsWith(path, settings.journalFolder)
                          /\ FirstDateShaped(Basename(path)) # NoDate
                          /\ StrLeq(run[p].startDate, FirstDateShaped(Basename(path)))
                          /\ StrLeq(FirstDateShaped(Basename(path)), run[p].endDate)

\* A run has selected a file whose date has text around it, the file of
\* 2025-13-99, and a file with two dates in its name, by the first of them.
C16_Witness ==
    \E p \in Procs :
        /\ Selected(p)
        /\ run[p].startDate = D1002
        /\ run[p].endDate = D1399
        /\ Md(Journal, <<"a">> \o D1003 \o <<"x">>) \in Range(run[p].journalFiles)
        /\ Md(Journal, D1399) \in Range(run[p].journalFiles)
        /\ OldNote \in FilePaths(files)
        /\ OldNote \notin Range(run[p].journalFiles)

----------------------------------------------------------------------------
(* Claims about the aggregated text and the count in the footer, under
   SpecBodies *)

\* The header-delimited section of one file.
SectionOf(basename, body) ==
    <<"\n\n", "## Entry:", " ">> \o basename \o <<"\n\n">> \o body \o <<"\n">>

\* The sections of the first n of `paths`, one after the other.
RECURSIVE SectionsOf(_, _, _)
SectionsOf(fs, paths, n) ==
    IF n = 0 THEN <<>>
    ELSE SectionsOf(fs, paths, n - 1)
             \o SectionOf(Basename(paths[n]), NoteAt(fs, paths[n]))

\* readJournalFiles has returned to run p.
Aggregated(p) ==
    /\ run[p].kind = "theme"
    /\ run[p].pc = "writeTemp" \/ run[p].execs > 0

\* C17: what readJournalFiles returns for N files is N sections one after
\* the other, the i-th made of the "## Entry:" header with the basename of
\* the i-th file and of its whole body, whatever the bodies are; while it
\* reads, it holds the sections of the files read so far.
C17_OneSectionPerFile ==
    \A p \in Procs :
        /\ Aggregated(p)
           => run[p].content =
                  SectionsOf(files0, run[p].journalFiles, Len(run[p].journalFiles))
        /\ (run[p].kind = "theme" /\ run[p].pc = "read")
           => run[p].content =
                  SectionsOf(files0, run[p].journalFiles, run[p].idx - 1)

\* Two files, the first with "## Entry:" in its body, have been aggregated.
C17_Witness ==
    \E p \in Procs :
        /\ Aggregated(p)
        /\ Len(run[p].journalFiles) = 2
        /\ \E i \in 1..Len(NoteAt(files0, run[p].journalFiles[1])) :
               NoteAt(files0, run[p].journalFiles[1])[i] = "## Entry:"
        /\ NoteAt(files0, run[p].journalFiles[2]) = <<"plain">>

\* C20: the count in the footer of the analysis is the number of journal
\* files selected for the run.
C20_FooterCountsFiles ==
    \A p \in Procs :
        (run[p].kind = "theme" /\ run[p].analysis # <<>>)
            => run[p].analysis[Len(run[p].analysis) - 3] =
                   ToString(Len(run[p].journalFiles))

\* The part of C20 that the code keeps: the count is right when no body
\* holds the text "## Entry:".
C20_FooterCountsFilesOfPlainBodies ==
    \A p \in Procs :
        (/\ run[p].kind = "theme"
         /\ run[p].analysis # <<>>
         /\ \A k \in 1..Len(files0) : CountAtom(files0[k].content, "## Entry:") = 0)
            => run[p].analysis[Len(run[p].analysis) - 3] =
                   ToString(Len(run[p].journalFiles))

----------------------------------------------------------------------------
(* Claims about saveJournalEntry, under SpecSave *)

IsPrefix(a, b) == Len(a) <= Len(b) /\ SubSeq(b, 1, Len(a)) = a

\* saveJournalEntry has returned to run p (its write took effect).
Saved(p) ==
    /\ run[p].kind = "save"
    /\ run[p].notices # <<>>
    /\ run[p].notices[1] = EntrySaved

TodaysFile == NoteAt(files, JournalPath(settings.journalFolder))

\* `text` ends with a subheading that holds a time, and `entry` under it.
UnderTimedSubheading(text, entry) ==
    \E time \in 0..(MaxClock + 1) :
        LET tail == <<"\n\n", "## ", ToString(time), ":00 PM", "\n\n">> \o entry
        IN  /\ Len(tail) <= Len(text)
            /\ SubSeq(text, Len(text) - Len(tail) + 1, Len(text)) = tail

\* C18: a save on a day whose file exists writes what the file held,
\* followed by the entry under a time-stamped subheading; what a save wrote
\* stays a prefix of the file, so that the file keeps what it held at first
\* and every entry saved that day.
C18_SaveAppends ==
    /\ IsFile(files0, JournalPath(settings.journalFolder))
       => IsPrefix(NoteAt(files0, JournalPath(settings.journalFolder)), TodaysFile)
    /\ \A p \in Procs :
          Saved(p) =>
              /\ IsPrefix(run[p].newContent, TodaysFile)
              /\ Occurrences(TodaysFile, run[p].entry) # {}
              /\ run[p].writeOp = "modify" =>
                    /\ IsPrefix(run[p].existingContent, run[p].newContent)
                    /\ Len(run[p].newContent) =
                           Len(run[p].existingContent) + 5 + Len(run[p].entry)
                    /\ UnderTimedSubheading(run[p].newContent, run[p].entry)

\* Two different entries have been saved, one after the other, on a day
\* whose file existed: the file holds its first content and both entries.
C18_Witness ==
    /\ IsFile(files0, JournalPath(settings.journalFolder))
    /\ Saved(1) /\ Saved(2)
    /\ run[1].entry # run[2].entry
    /\ run[2].existingContent = run[1].newContent
    /\ TodaysFile = run[2].newContent
    /\ TodaysFile # NoteAt(files0, JournalPath(settings.journalFolder))


----------------------------------------------------------------------------
(* C19: the candidates of the connection prompt *)

\* The runs whose context is complete, and their candidates.
ContextBuilt(p) ==
    /\ run[p].kind = "connections"
    /\ run[p].pc \in {"connWriteTemp", "connExec"}

Candidates(p) == run[p].recentFiles

CandidateSet(p) == {Candidates(p)[i] : i \in 1..Len(Candidates(p))}

OtherFiles(p) == FilePaths(files) \ {run[p].currentFile}

\* A body as the claim has it embedded.
Embedded(body) ==
    IF Len(body) <= 500 THEN body ELSE SubSeq(body, 1, 500) \o <<"...">>

\* The sections of the first k candidates, in their order.
RECURSIVE CandidateSections(_, _)
CandidateSections(p, k) ==
    IF k = 0 THEN <<>>
    ELSE CandidateSections(p, k - 1)
             \o <<"## ">> \o Candidates(p)[k] \o <<"\n">>
             \o Embedded(FileAt(files, Candidates(p)[k]).content) \o <<"\n\n">>

ExpectedContext(p) ==
    <<"# Current Note: ">> \o Basename(run[p].currentFile) \o <<"\n\n">>
        \o FileAt(files, run[p].currentFile).content
        \o <<"\n\n---\n\n# Other Notes:\n\n">>
        \o CandidateSections(p, Len(Candidates(p)))

\* The written prompt ends with the context and its closing line.
PromptEmbeds(prompt, context) ==
    /\ Len(prompt) > Len(context)
    /\ SubSeq(prompt, Len(prompt) - Len(context), Len(prompt) - 1) = context

\* C19: the candidates embedded in the connection prompt exclude the current
\* file, are at most 50 (all the other files when these are fewer), are the
\* most recently modified other files in descending modification time, each
\* once, and the body of each is embedded whole when it has at most 500
\* characters and as its first 500 characters and '...' otherwise.
C19_CandidatesRecentAndTruncated ==
    \A p \in Procs :
        ContextBuilt(p) =>
            /\ CandidateSet(p) \subseteq OtherFiles(p)
            /\ Len(Candidates(p)) <= 50
            /\ Len(Candidates(p)) = Cardinality(CandidateSet(p))
            /\ Cardinality(OtherFiles(p)) <= 50 => CandidateSet(p) = OtherFiles(p)
            /\ Cardinality(OtherFiles(p)) > 50 => Len(Candidates(p)) = 50
            /\ \A i, j \in 1..Len(Candidates(p)) :
                  i < j => MtimeOf(files, Candidates(p)[i])
                               >= MtimeOf(files, Candidates(p)[j])
            /\ \A out \in OtherFiles(p) \ CandidateSet(p) :
                  \A in \in CandidateSet(p) :
                      MtimeOf(files, out) <= MtimeOf(files, in)
            /\ run[p].content = ExpectedContext(p)
            /\ run[p].pc = "connExec" =>
                  /\ run[p].tempFile \in DOMAIN tmp
                  /\ PromptEmbeds(tmp[run[p].tempFile], ExpectedContext(p))

\* A prompt is written for a vault of more than 51 notes: fifty candidates,
\* one other file left out, a body of 501 characters cut and one of 500
\* embedded whole.
C19_Witness ==
    \E p \in Procs :
        /\ ContextBuilt(p)
        /\ run[p].pc = "connExec"
        /\ Len(Candidates(p)) = 50
        /\ OtherFiles(p) \ CandidateSet(p) # {}
        /\ \E a, b \in CandidateSet(p) :
              /\ Len(FileAt(files, a).content) = 501
              /\ Len(FileAt(files, b).content) = 500
              /\ MtimeOf(files, a) # MtimeOf(files, b)


----------------------------------------------------------------------------
(* C21: the order of the selected files, under SpecSelect *)

\* The basename begins with its date: its first ten characters are
\* dddd-dd-dd.
BeginsWithDate(path) == DateShaped(Basename(path), 1)

DatePrefix(path) == SubSeq(Basename(path), 1, 10)

\* C21: of any two selected files whose basenames begin with their date, the
\* one earlier in the result of getJournalFilesInRange has the lesser or the
\* same date: the ascending order of basenames is chronological.
C21_BasenameOrderIsChronological ==
    \A p \in Procs :
        Selected(p) =>
            \A i, j \in 1..Len(run[p].journalFiles) :
                (/\ i < j
                 /\ BeginsWithDate(run[p].journalFiles[i])
                 /\ BeginsWithDate(run[p].journalFiles[j]))
                    => StrLeq(DatePrefix(run[p].journalFiles[i]),
                              DatePrefix(run[p].journalFiles[j]))

\* Three files of three dates, listed by the vault latest first, are
\* returned earliest first.
C21_Witness ==
    \E p \in Procs :
        /\ Selected(p)
        /\ PathsOf(files) = <<Md(Journal, D1399), Md(Journal, D1002),
                              Md(Journal, D1001)>>
        /\ run[p].journalFiles = <<Md(Journal, D1001), Md(Journal, D1002),
                                   Md(Journal, D1399)>>


----------------------------------------------------------------------------
(* C22: the temporary files of two runs, under SpecTwo *)

\* The run's external tool has been started and has not ended.
InFlight(p) == run[p].pc = "exec" /\ run[p].promise = "pending"

\* The run has named its temporary file and has not yet removed it.
HoldsTempFile(p) == run[p].pc \in {"writeTemp", "exec", "unlink"}

\* C22: two invocations of the external tool that are in flight at the same
\* time never have the same temporary file path, and a run that comes to
\* remove its temporary file finds it.
C22_TempPathsDistinct ==
    /\ \A p, q \in Procs :
          (p # q /\ InFlight(p) /\ InFlight(q))
              => run[p].tempFile # run[q].tempFile
    /\ \A p \in Procs :
          run[p].pc = "unlink" => run[p].tempFile \in DOMAIN tmp

\* The same for two runs that named their files in different milliseconds.
C22_DistinctWhenNamedApart ==
    \A p, q \in Procs :
        (/\ p # q
         /\ HoldsTempFile(p)
         /\ HoldsTempFile(q)
         /\ run[p].tempFile.stamp # run[q].tempFile.stamp)
            => /\ run[p].tempFile # run[q].tempFile
               /\ run[p].pc = "unlink" => run[p].tempFile \in DOMAIN tmp


----------------------------------------------------------------------------
(* C23: how a command ends, under SpecCommands *)

Commands == {"theme", "connections", "quick"}

\* The run of a command has ended.
CommandEnded(p) == run[p].kind \in Commands /\ run[p].pc = "done"

\* The run of a command is between its start and its end.
CommandRunning(p) ==
    run[p].kind \in Commands /\ run[p].pc \notin {"off", "idle", "done"}

\* The notice of a catch block of an entry point.
IsErrorNotice(text) ==
    text # <<>> /\ text[1] \in {"Error analyzing journal: ",
                               "Error finding connections: ", "Error: "}

ErrorNotices(p) ==
    {i \in 1..Len(run[p].notices) : IsErrorNotice(run[p].notices[i])}

\* C23 as stated: every run of the three commands ends with the progress
\* modal closed and exactly one notice shown.
C23_ExactlyOneNotice ==
    \A p \in Procs :
        CommandEnded(p) => ~run[p].modalOpen /\ Len(run[p].notices) = 1

\* C23: every run of the three commands ends with the progress modal closed;
\* a failure of a step ends the run at once with one error notice, never
\* more; analyzeJournalRange shows exactly one notice; findMissingConnections
\* shows exactly one, except none when it opens the suggestions;
\* quickJournalWithAnalysis shows one, or 'Journal entry saved!' and then
\* the error notice when only the last openFile fails.
C23_ClosedAndOneErrorAtMost ==
    \A p \in Procs :
        /\ CommandRunning(p) =>
              ErrorNotices(p) = {} \/ run[p].pc = "quickOpen"
        /\ CommandRunning(p) /\ run[p].pc = "quickOpen" =>
              run[p].notices = <<EntrySaved>>
        /\ CommandEnded(p) =>
              /\ ~run[p].modalOpen
              /\ Cardinality(ErrorNotices(p)) <= 1
              /\ run[p].kind = "theme" => Len(run[p].notices) = 1
              /\ run[p].kind = "connections" =>
                    Len(run[p].notices) = IF run[p].suggestionsOpen THEN 0 ELSE 1
              /\ run[p].kind = "quick" =>
                    \/ Len(run[p].notices) = 1
                    \/ /\ Len(run[p].notices) = 2
                       /\ run[p].notices[1] = EntrySaved
                       /\ run[p].notices[2] = <<"Error: ", "open failed">>
                       /\ ~run[p].suggestionsOpen

\* The modal was open when a step of quickJournalWithAnalysis failed: the
\* run has ended with the modal closed and the error notice alone.
C23_Witness ==
    \E p \in Procs :
        /\ CommandEnded(p)
        /\ run[p].kind = "quick"
        /\ run[p].cancelledAt = "none"
        /\ ~run[p].modalOpen
        /\ Len(run[p].notices) = 1
        /\ ErrorNotices(p) = {1}


----------------------------------------------------------------------------
(* C24: the generated note and the selection, under SpecTwice *)

\* Run 1 has written its note with the default folders, and run 2, started
\* after it, is over the same range.
SecondRunAfterNote ==
    /\ settings.journalFolder = Journal
    /\ settings.metaFolder = JournalMeta
    /\ SameRange(1, 2)
    /\ run[1].pc = "done"
    /\ run[1].noteWrites = 1
    /\ run[2].pc # "idle"

\* C24: a note the analysis wrote is never selected as a journal entry: the
\* second run over a range selects the files the first run selected.
C24_GeneratedNoteNotSelected ==
    SecondRunAfterNote =>
        /\ Target(1) \notin Range(run[2].journalFiles)
        /\ Range(run[2].journalFiles) = Range(run[1].journalFiles)

\* The second run selects the files the first one selected and, of the
\* files the vault did not hold at first, only the note of the first run.
C24_SecondRunSelectsTheNoteToo ==
    SecondRunAfterNote =>
        Range(run[2].journalFiles) = Range(run[1].journalFiles) \cup {Target(1)}


----------------------------------------------------------------------------
(* C25: 'Add Link' and then 'Add All Links', under SpecClicks *)

\* The click handled by run p was on 'Add Link' of connection i and added
\* the link.
AddedByOwnButton(p, i) ==
    /\ run[p].kind = "addLink"
    /\ run[p].pc = "done"
    /\ run[p].idx = i
    /\ run[p].notices = <<AddedLinkTo(run[p].connections[i].targetFile)>>

\* The click handled by run q was on 'Add All Links' and its loop has ended.
AddAllEnded(q) == run[q].kind = "addAll" /\ run[q].pc = "done"

\* C25: a connection added through its own button is not handed to
\* insertWikiLink again by 'Add All Links', so that it is neither inserted a
\* second time nor counted as failed: the two counters of 'Add All Links'
\* leave it out.
C25_AddedLinkNotRepeated ==
    \A p, q \in Procs, i \in 1..MaxLinks :
        (AddedByOwnButton(p, i) /\ AddAllEnded(q))
            => /\ \A k \in 1..Len(run[q].attempts) : run[q].attempts[k] # i
               /\ run[q].added + run[q].failed < Len(run[q].connections)

\* 'Add All Links' hands every connection to insertWikiLink, those added
\* through their own button included, and counts each as added or as failed.
C25_AddAllRepeatsEveryConnection ==
    \A q \in Procs :
        AddAllEnded(q) =>
            /\ run[q].attempts = [k \in 1..Len(run[q].connections) |-> k]
            /\ run[q].added + run[q].failed = Len(run[q].connections)


----------------------------------------------------------------------------
(* C26: quickJournalWithAnalysis when the analysis fails, under
   SpecCommands *)

\* saveJournalEntry has returned to quickJournalWithAnalysis.
SaveReturned(p) == run[p].kind = "quick" /\ run[p].currentFile # <<>>

Occurs(text, part) ==
    \E i \in 1..(Len(text) - Len(part) + 1) :
        SubSeq(text, i, i + Len(part) - 1) = part

\* Today's journal file holds the entry of run p, after what the file held
\* before the run if it was there.
EntryInTodaysFile(p) ==
    /\ TodaysFile # Absent
    /\ Occurs(TodaysFile, run[p].entry)
    /\ TodaysFile # NoteAt(files0, JournalPath(settings.journalFolder))
    /\ IsFile(files0, JournalPath(settings.journalFolder)) =>
          IsPrefix(NoteAt(files0, JournalPath(settings.journalFolder)), TodaysFile)

\* analyzeConnections, called by quickJournalWithAnalysis, has thrown: at its
\* read of the journal file, or inside its try block.
QuickAnalysisFailed(p) ==
    /\ SaveReturned(p)
    /\ run[p].pc = "done"
    /\ \E k \in ErrorNotices(p) :
          \/ run[p].notices[k] = <<"Error: ", "read failed">>
          \/ /\ Len(run[p].notices[k]) > 1
             /\ run[p].notices[k][2] = "Failed to analyze connections: "

\* C26: in quickJournalWithAnalysis the entry is in today's journal file
\* before the external tool is invoked and stays there to the end of the
\* run; when the connection analysis fails, the run ends with the error
\* notice alone, without 'Journal entry saved!', and the file keeps the
\* entry.
C26_EntrySavedBeforeAnalysis ==
    \A p \in Procs :
        run[p].kind = "quick" =>
            /\ run[p].execs > 0 => SaveReturned(p)
            /\ SaveReturned(p) => EntryInTodaysFile(p)
            /\ QuickAnalysisFailed(p) =>
                  /\ Len(run[p].notices) = 1
                  /\ ErrorNotices(p) = {1}
                  /\ \A k \in 1..Len(run[p].notices) :
                        run[p].notices[k] # EntrySaved
                  /\ ~run[p].modalOpen

\* The tool was invoked and failed after the entry was appended to the file
\* of today: the run has ended with the error notice, and the file holds
\* what it held and the entry.
C26_Witness ==
    \E p \in Procs :
        /\ QuickAnalysisFailed(p)
        /\ run[p].execs = 1
        /\ run[p].promise = "rejected"
        /\ IsFile(files0, JournalPath(settings.journalFolder))
        /\ EntryInTodaysFile(p)
        /\ run[p].notices =
               <<<<"Error: ", "Failed to analyze connections: ", "Command failed">>>>

=============================================================================
